---- MODULE Spec2Model ----
(***************************************************************************)
(* Model of the gdrive-bot backend: the remote store as the code uses it,  *)
(* DriveClient.ensure_folder and DriveClient.upload_file step by step, the *)
(* /upload batch handler, the event store handlers and _merge_intervals.   *)
(***************************************************************************)
EXTENDS Integers, Sequences, FiniteSets, TLC

(* ------------------------------ bounds -------------------------------- *)

\* worker threads running _process_sync concurrently, one job each
NThreads == 2
\* files of one upload batch
MaxFiles == 2

(* ----------------------------- constants ------------------------------ *)

\* Python's None / "" for a folder id: every test `if parent_id:` / `if cached:` is false on it
NoId == 0

\* the worker threads
Threads == 1..NThreads

\* date folder names produced by format_date_folder
DateNames == {"2025-03-01", "2025-03-02"}

\* the time part produced by format_time_for_name
TimePart == "12-00-00"

\* original file names, one token per dot-free run of characters and one per dot
OrigNames ==
  { <<"photo", ".", "jpg">>, <<"photo", ".", "tar", ".", "gz">>, <<"photo">> }

(* ------------------------------- state -------------------------------- *)

VARIABLES
  mainParent,   \* what get_main_parent_folder returns in this deployment
  folders,      \* remote folders, in creation order; a folder's id is its index
  files,        \* remote files, in creation order; a file's id is its index
  cache,        \* _FOLDER_CACHE: (parent, name) -> folder id
  locks,        \* _FOLDER_LOCKS: the keys that have a mutex
  held,         \* the keys whose mutex is held
  th,           \* each worker thread's position and locals
  createCalls,  \* per folder name, the folder-create calls performed
  createFails,  \* per folder name, the folder-create calls that raised
  returned,     \* every (key, id) ensure_folder has returned
  log,          \* every file create performed by upload_file
  hpc,          \* the /upload handler's position
  batch,        \* its files: the original file names, in request order
  idx,          \* the index of the file being processed (from 1)
  results,      \* its results list
  temps,        \* the indices whose scratch directory exists; -i: left by rmtree
  worker,       \* the thread running the current file's _process_sync
  resp,         \* the last response of an /events handler
  lastMut,      \* the last successful mutation of the events document
  mIn,          \* _merge_intervals' argument
  mOut,         \* its result
  mpc,          \* whether it has run
  qin,          \* the arguments of the query or function call under way
  qout,         \* its result
  qpc,          \* whether it has run
  rq            \* the /events requests of other processes: position and locals

storeVars == <<mainParent, folders, files, cache, locks, held>>
threadVars == <<th, createCalls, createFails, returned, log>>
batchVars == <<hpc, batch, idx, results, temps, worker>>
eventVars == <<resp, lastMut>>
mergeVars == <<mIn, mOut, mpc>>
queryVars == <<qin, qout, qpc>>
restVars == <<eventVars, mergeVars, queryVars, rq>>
vars == <<storeVars, threadVars, batchVars, eventVars, mergeVars, queryVars, rq>>

(* ------------------------- names (pathlib) ---------------------------- *)

Dots(name) == {i \in 1..Len(name) : name[i] = "."}

Max(S) == CHOOSE x \in S : \A y \in S : y <= x

Min(S) == CHOOSE x \in S : \A y \in S : x <= y

\* PurePath.suffix: from the last dot on, unless that dot is first or last
suffix(name) ==
  IF Dots(name) = {} THEN <<>>
  ELSE LET i == Max(Dots(name))
       IN IF 1 < i /\ i < Len(name) THEN SubSeq(name, i, Len(name)) ELSE <<>>

\* PurePath.stem: the name without its suffix
stem(name) == SubSeq(name, 1, Len(name) - Len(suffix(name)))

\* str.lstrip("."): the name without its leading dots
RECURSIVE lstripDots(_)
lstripDots(name) ==
  IF name # <<>> /\ Head(name) = "." THEN lstripDots(Tail(name)) ELSE name

\* ''.join(PurePath.suffixes): nothing when the name ends with a dot, else
\* everything from the first dot of the lstripped name
suffixes(name) ==
  IF name = <<>> \/ name[Len(name)] = "." THEN <<>>
  ELSE LET n == lstripDots(name)
       IN IF Dots(n) = {} THEN <<>> ELSE SubSeq(n, Min(Dots(n)), Len(n))

\* upload.py: new_name = f"{date_folder_name}_{time_part}{ext}"
NewName(date, orig) == <<date, "_", TimePart>> \o suffixes(orig)

\* gdrive.py: f"{base}-{counter}{ext}"
Dedup(base, counter, ext) == base \o <<"-", ToString(counter)>> \o ext

(* --------------------------- remote store ----------------------------- *)

Folder(name, parent) == [name |-> name, parent |-> parent]

File(name, parent, content) ==
  [name |-> name, parent |-> parent, content |-> content]

\* the ids files().list returns for _find_folder's query: the name matches and,
\* when a parent is given, the folder lies directly under it
FolderMatches(name, parent) ==
  {i \in 1..Len(folders) :
     /\ folders[i].name = name
     /\ (parent # NoId => folders[i].parent = parent)}

\* _find_folder that never sees a folder
_find_folder_blind(name, parent) == {NoId}

\* _find_folder: files[0] of the listing (whose order the store chooses), or None
_find_folder(name, parent) ==
  IF FolderMatches(name, parent) = {} THEN {NoId} ELSE FolderMatches(name, parent)

\* _file_exists_in_folder
_file_exists_in_folder(name, parent) ==
  \E i \in 1..Len(files) : files[i].name = name /\ files[i].parent = parent

Key(parent, name) == <<parent, name>>

Cached(key) == IF key \in DOMAIN cache THEN cache[key] ELSE NoId

(* ------------------------------ threads ------------------------------- *)

Idle == [pc |-> "idle", name |-> "", upname |-> <<>>, fid |-> NoId,
         final |-> <<>>, counter |-> 0, out |-> "none"]

KeyOf(t) == Key(mainParent, th[t].name)

\* _process_sync up to the ensure_folder call: the names are computed
ProcessSyncBegin(t, date, orig) ==
  /\ th[t].pc = "idle"
  /\ th' = [th EXCEPT ![t] = [Idle EXCEPT !.pc = "ensure", !.name = date,
                                           !.upname = NewName(date, orig)]]

\* a request's _process_sync dispatched to a worker thread
StartJob(t) ==
  /\ \E date \in DateNames, orig \in OrigNames : ProcessSyncBegin(t, date, orig)
  /\ UNCHANGED <<batchVars, restVars, storeVars, createCalls, createFails, returned, log>>

\* _get_folder_lock: under the registry guard, get or create the key's mutex
GetFolderLock(t) ==
  /\ th[t].pc = "ensure"
  /\ locks' = locks \cup {KeyOf(t)}
  /\ th' = [th EXCEPT ![t].pc = "acquire"]
  /\ UNCHANGED <<batchVars, restVars, mainParent, folders, files, cache, held,
                 createCalls, createFails, returned, log>>

\* AcquireLock entered without waiting for the holder to leave
AcquireLockUnguarded(t) ==
  /\ th[t].pc = "acquire"
  /\ held' = held \cup {KeyOf(t)}
  /\ th' = [th EXCEPT ![t].pc = "cache"]
  /\ UNCHANGED <<batchVars, restVars, mainParent, folders, files, cache, locks,
                 createCalls, createFails, returned, log>>

\* one mutex for every key: entered only when no folder mutex is held
AcquireLockGlobal(t) ==
  /\ th[t].pc = "acquire"
  /\ held = {}
  /\ held' = held \cup {KeyOf(t)}
  /\ th' = [th EXCEPT ![t].pc = "cache"]
  /\ UNCHANGED <<batchVars, restVars, mainParent, folders, files, cache, locks,
                 createCalls, createFails, returned, log>>

\* `with lock:` entered
AcquireLock(t) ==
  /\ th[t].pc = "acquire"
  /\ KeyOf(t) \notin held
  /\ held' = held \cup {KeyOf(t)}
  /\ th' = [th EXCEPT ![t].pc = "cache"]
  /\ UNCHANGED <<batchVars, restVars, mainParent, folders, files, cache, locks,
                 createCalls, createFails, returned, log>>

\* ensure_folder returns id and upload_file starts with the mutex still held
ReturnHolding(t, id) ==
  /\ held' = held
  /\ returned' = returned \cup {<<KeyOf(t), id>>}
  /\ th' = [th EXCEPT ![t].pc = "probe", ![t].fid = id,
                      ![t].final = th[t].upname, ![t].counter = 1]

\* ensure_folder returns id: the mutex is released and upload_file starts
Return(t, id) ==
  /\ held' = held \ {KeyOf(t)}
  /\ returned' = returned \cup {<<KeyOf(t), id>>}
  /\ th' = [th EXCEPT ![t].pc = "probe", ![t].fid = id,
                      ![t].final = th[t].upname, ![t].counter = 1]

\* an exception that leaves ensure_folder with the mutex still held
RaiseHolding(t) ==
  /\ held' = held
  /\ th' = [th EXCEPT ![t].pc = "done", ![t].out = "error"]

\* an exception leaves ensure_folder: the mutex is released, _process_sync raises
Raise(t) ==
  /\ held' = held \ {KeyOf(t)}
  /\ th' = [th EXCEPT ![t].pc = "done", ![t].out = "error"]

CacheCheck(t) ==
  /\ th[t].pc = "cache"
  /\ IF Cached(KeyOf(t)) # NoId
       THEN Return(t, Cached(KeyOf(t)))
       ELSE /\ th' = [th EXCEPT ![t].pc = "find"]
            /\ UNCHANGED <<batchVars, restVars, held, returned>>
  /\ UNCHANGED <<batchVars, restVars, mainParent, folders, files, cache, locks,
                 createCalls, createFails, log>>

FindFolder(t) ==
  /\ th[t].pc = "find"
  /\ \E id \in _find_folder(th[t].name, mainParent) :
       IF id # NoId
         THEN /\ cache' = (KeyOf(t) :> id) @@ cache
              /\ Return(t, id)
         ELSE /\ th' = [th EXCEPT ![t].pc = "create"]
              /\ UNCHANGED <<batchVars, restVars, cache, held, returned>>
  /\ UNCHANGED <<batchVars, restVars, mainParent, folders, files, locks,
                 createCalls, createFails, log>>

FindFolderFails(t) ==
  /\ th[t].pc = "find"
  /\ Raise(t)
  /\ UNCHANGED <<batchVars, restVars, mainParent, folders, files, cache, locks,
                 createCalls, createFails, returned, log>>

NewFolder(t) == [name |-> th[t].name, parent |-> mainParent]

CreateFolder(t) ==
  /\ th[t].pc = "create"
  /\ folders' = Append(folders, NewFolder(t))
  /\ createCalls' = [createCalls EXCEPT ![th[t].name] = @ + 1]
  /\ cache' = (KeyOf(t) :> Len(folders) + 1) @@ cache
  /\ Return(t, Len(folders) + 1)
  /\ UNCHANGED <<batchVars, restVars, mainParent, files, locks, createFails, log>>

\* the create call raises, before the store acted on it or after
CreateFolderFails(t) ==
  /\ th[t].pc = "create"
  /\ \E acted \in BOOLEAN :
       folders' = IF acted THEN Append(folders, NewFolder(t)) ELSE folders
  /\ createCalls' = [createCalls EXCEPT ![th[t].name] = @ + 1]
  /\ createFails' = [createFails EXCEPT ![th[t].name] = @ + 1]
  /\ Raise(t)
  /\ UNCHANGED <<batchVars, restVars, mainParent, files, cache, locks, returned, log>>

\* Probe that takes the first suffixed name without checking it
ProbeOnce(t) ==
  /\ th[t].pc = "probe"
  /\ IF th[t].fid # NoId /\ _file_exists_in_folder(th[t].final, th[t].fid)
       THEN th' = [th EXCEPT
                     ![t].final = Dedup(stem(th[t].upname), th[t].counter,
                                        suffix(th[t].upname)),
                     ![t].pc = "upload"]
       ELSE th' = [th EXCEPT ![t].pc = "upload"]
  /\ UNCHANGED <<batchVars, restVars, storeVars, createCalls, createFails, returned, log>>

\* upload_file's loop: one _file_exists_in_folder call
Probe(t) ==
  /\ th[t].pc = "probe"
  /\ IF th[t].fid # NoId /\ _file_exists_in_folder(th[t].final, th[t].fid)
       THEN th' = [th EXCEPT
                     ![t].final = Dedup(stem(th[t].upname), th[t].counter,
                                        suffix(th[t].upname)),
                     ![t].counter = @ + 1]
       ELSE th' = [th EXCEPT ![t].pc = "upload"]
  /\ UNCHANGED <<batchVars, restVars, storeVars, createCalls, createFails, returned, log>>

ProbeFails(t) ==
  /\ th[t].pc = "probe"
  /\ th[t].fid # NoId
  /\ th' = [th EXCEPT ![t].pc = "done", ![t].out = "error"]
  /\ UNCHANGED <<batchVars, restVars, storeVars, createCalls, createFails, returned, log>>

NamesIn(parent) == {files[i].name : i \in {j \in 1..Len(files) : files[j].parent = parent}}

\* upload_file's files().create
CreateFile(t) ==
  /\ th[t].pc = "upload"
  /\ files' = Append(files, File(th[t].final, th[t].fid, "media"))
  /\ log' = log \cup {[parent |-> th[t].fid, requested |-> th[t].upname,
                       final |-> th[t].final, before |-> NamesIn(th[t].fid)]}
  /\ th' = [th EXCEPT ![t].pc = "done", ![t].out = "ok"]
  /\ UNCHANGED <<batchVars, restVars, mainParent, folders, cache, locks, held,
                 createCalls, createFails, returned>>

CreateFileFails(t) ==
  /\ th[t].pc = "upload"
  /\ th' = [th EXCEPT ![t].pc = "done", ![t].out = "error"]
  /\ UNCHANGED <<batchVars, restVars, storeVars, createCalls, createFails, returned, log>>

ThreadStep(t) ==
  \/ GetFolderLock(t)
  \/ AcquireLock(t)
  \/ CacheCheck(t)
  \/ FindFolder(t)
  \/ FindFolderFails(t)
  \/ CreateFolder(t)
  \/ CreateFolderFails(t)
  \/ Probe(t)
  \/ ProbeFails(t)
  \/ CreateFile(t)
  \/ CreateFileFails(t)

(* ------------------------- the /upload handler ------------------------ *)

ErrorEntry(orig) ==
  [originalName |-> orig, status |-> "error", newName |-> <<>>, dateFolder |-> ""]

OkEntry(orig, t) ==
  [originalName |-> orig, status |-> "ok", newName |-> th[t].final,
   dateFolder |-> th[t].name]

\* tempfile.mkdtemp, before the try: the scratch directory of file idx
HMkdtemp ==
  /\ hpc = "loop"
  /\ idx <= Len(batch)
  /\ temps' = temps \cup {idx}
  /\ hpc' = "write"
  /\ UNCHANGED <<restVars, batch, idx, results, worker, storeVars, threadVars>>

\* mkdtemp raises outside the try: the exception leaves the handler
HMkdtempFails ==
  /\ hpc = "loop"
  /\ idx <= Len(batch)
  /\ hpc' = "aborted"
  /\ UNCHANGED <<restVars, batch, idx, results, temps, worker, storeVars, threadVars>>

\* the upload is copied to the scratch file
HWrite ==
  /\ hpc = "write"
  /\ hpc' = "dispatch"
  /\ UNCHANGED <<restVars, batch, idx, results, temps, worker, storeVars, threadVars>>

\* except Exception: an error entry
Except ==
  /\ results' = Append(results, ErrorEntry(batch[idx]))
  /\ hpc' = "finally"

HWriteFails ==
  /\ hpc = "write"
  /\ Except
  /\ UNCHANGED <<restVars, batch, idx, temps, worker, storeVars, threadVars>>

\* to_thread.run_sync(_process_sync): a free worker thread takes the job; the
\* date is the one get_capture_datetime resolves
HDispatch ==
  /\ hpc = "dispatch"
  /\ \E date \in DateNames :
       LET t == Min({u \in Threads : th[u].pc = "idle"})
       IN /\ ProcessSyncBegin(t, date, batch[idx])
          /\ worker' = t
  /\ hpc' = "await"
  /\ UNCHANGED <<restVars, batch, idx, results, temps, storeVars,
                 createCalls, createFails, returned, log>>

\* _process_sync returned: the ok entry
HCollect ==
  /\ hpc = "await"
  /\ th[worker].pc = "done"
  /\ th[worker].out = "ok"
  /\ results' = Append(results, OkEntry(batch[idx], worker))
  /\ hpc' = "finally"
  /\ th' = [th EXCEPT ![worker] = Idle]
  /\ UNCHANGED <<restVars, batch, idx, temps, worker, storeVars,
                 createCalls, createFails, returned, log>>

\* _process_sync raised
HCollectFails ==
  /\ hpc = "await"
  /\ th[worker].pc = "done"
  /\ th[worker].out = "error"
  /\ Except
  /\ th' = [th EXCEPT ![worker] = Idle]
  /\ UNCHANGED <<restVars, batch, idx, temps, worker, storeVars,
                 createCalls, createFails, returned, log>>

\* a finally clause that removes nothing
HFinallySkipping ==
  /\ hpc = "finally"
  /\ temps' = temps
  /\ idx' = idx + 1
  /\ hpc' = "loop"
  /\ UNCHANGED <<restVars, batch, results, worker, storeVars, threadVars>>

\* finally: shutil.rmtree(temp_dir, ignore_errors=True), which removes the
\* directory or fails without a word; then the next file
HFinally ==
  /\ hpc = "finally"
  /\ \E removed \in BOOLEAN :
       temps' = IF removed THEN temps \ {idx} ELSE (temps \ {idx}) \cup {-idx}
  /\ idx' = idx + 1
  /\ hpc' = "loop"
  /\ UNCHANGED <<restVars, batch, results, worker, storeVars, threadVars>>

\* return {"results": results}
HReturn ==
  /\ hpc = "loop"
  /\ idx > Len(batch)
  /\ hpc' = "returned"
  /\ UNCHANGED <<restVars, batch, idx, results, temps, worker, storeVars, threadVars>>

HandlerStep ==
  \/ HMkdtemp
  \/ HMkdtempFails
  \/ HWrite
  \/ HWriteFails
  \/ HDispatch
  \/ HCollect
  \/ HCollectFails
  \/ HFinally
  \/ HReturn

(* -------------------------- the event store --------------------------- *)

\* events of one request's list, and of the stored document
MaxEvents == 2

EVENTS_FILENAME == <<"events", ".", "json">>

SAVED_FOLDER_NAME == "saved"

\* ids a client sends; "" stands for an omitted or empty id
ClientIds == {"a", "b"}

\* values uuid4 can return
Uuids == {"u" \o ToString(i) : i \in 1..(MaxEvents + 1)}

\* name, start and end of the events clients send
Payloads ==
  { [name |-> "x", start |-> "2025-02-01T09:00", end |-> "2025-02-01T10:00"],
    [name |-> "y", start |-> "2025-02-01T10:00", end |-> "2025-02-01T10:00"],
    [name |-> "x", start |-> "2025-02-01T10:00", end |-> "2025-02-01T09:00"],
    [name |-> "x", start |-> "soon", end |-> "2025-02-01T10:00"] }

Event(id, p) == [id |-> id, name |-> p.name, start |-> p.start, end |-> p.end]

\* the events of a replaceAll request
SampleEvents ==
  {Event("a", p) : p \in Payloads} \cup
  {Event("b", p) : p \in {q \in Payloads : q.start # "soon"}}

\* datetime.fromisoformat: the minutes since 2025-02-01T00:00, or -1 for ValueError
fromisoformat(str) ==
  CASE str = "2025-02-01T09:00" -> 540
    [] str = "2025-02-01T10:00" -> 600
    [] str = "2025-02-02T09:00" -> 1980
    [] OTHER -> -1

\* a validation that only checks that both ends parse
InvalidUnparsed(ev) ==
  \/ fromisoformat(ev.start) = -1
  \/ fromisoformat(ev.end) = -1

\* the validation of add_event and replace_events rejects ev
Invalid(ev) ==
  \/ fromisoformat(ev.start) = -1
  \/ fromisoformat(ev.end) = -1
  \/ fromisoformat(ev.end) < fromisoformat(ev.start)

\* json.dumps([e.dict() for e in events]): one JSON object per event
Encode(events) ==
  [i \in 1..Len(events) |->
     <<events[i].id, events[i].name, events[i].start, events[i].end>>]

\* json.loads and Event(**e)
Decode(payload) ==
  [i \in 1..Len(payload) |->
     [id |-> payload[i][1], name |-> payload[i][2],
      start |-> payload[i][3], end |-> payload[i][4]]]

\* files[0] of the listing of the files of that name in the folder, or None
_find_file_in_folder_by_name(parent, name) ==
  LET found == {i \in 1..Len(files) :
                  files[i].name = name /\ files[i].parent = parent}
  IN IF found = {} THEN {NoId} ELSE found

\* DriveClient.download_file_bytes: the bytes of the file
download_file_bytes(f) == files[f].content

\* _download_events: what it can return
_download_events(saved) ==
  {IF f = NoId THEN <<>> ELSE Decode(download_file_bytes(f)) :
     f \in _find_file_in_folder_by_name(saved, EVENTS_FILENAME)}

\* _upload_events that never updates the file it finds
_upload_events_create(saved, events) ==
  files' = Append(files, File(EVENTS_FILENAME, saved, Encode(events)))

\* _upload_events: update the file found, or create it
_upload_events(saved, events) ==
  \E f \in _find_file_in_folder_by_name(saved, EVENTS_FILENAME) :
    IF f # NoId
      THEN files' = [files EXCEPT ![f].content = Encode(events)]
      ELSE files' = Append(files, File(EVENTS_FILENAME, saved, Encode(events)))

\* _ensure_saved_folder, run with no other ensure_folder call under way: the
\* cached id, else a folder found, else a folder created; saved is its result
_ensure_saved_folder(saved) ==
  LET key == Key(mainParent, SAVED_FOLDER_NAME)
  IN /\ locks' = locks \cup {key}
     /\ key \notin held
     /\ IF Cached(key) # NoId
          THEN saved = Cached(key) /\ UNCHANGED <<folders, cache>>
          ELSE /\ cache' = (key :> saved) @@ cache
               /\ IF FolderMatches(SAVED_FOLDER_NAME, mainParent) # {}
                    THEN /\ saved \in FolderMatches(SAVED_FOLDER_NAME, mainParent)
                         /\ folders' = folders
                    ELSE /\ saved = Len(folders) + 1
                         /\ folders' = Append(folders,
                                              Folder(SAVED_FOLDER_NAME, mainParent))
     /\ UNCHANGED <<mainParent, held>>

FolderIds == 1..(Len(folders) + 1)

Ids(events) == {events[i].id : i \in 1..Len(events)}

\* by_id[e.id] = e on a dict kept as the list of its values
Put(d, e) ==
  IF e.id \in Ids(d)
    THEN [i \in 1..Len(d) |-> IF d[i].id = e.id THEN e ELSE d[i]]
    ELSE Append(d, e)

\* {e.id: e for e in events}
RECURSIVE ById(_)
ById(events) ==
  IF events = <<>> THEN <<>>
  ELSE Put(ById(SubSeq(events, 1, Len(events) - 1)), events[Len(events)])

\* uuid4: an id no stored event has
uuid4(events) == CHOOSE u \in Uuids : u \notin Ids(events)

Response(op, status, id, generated, events) ==
  [op |-> op, status |-> status, id |-> id, generated |-> generated,
   events |-> events]

\* GET /events
get_events ==
  /\ \E saved \in FolderIds :
       /\ _ensure_saved_folder(saved)
       /\ \E events \in _download_events(saved) :
            resp' = Response("get", 200, "", FALSE, events)
  /\ UNCHANGED <<files, lastMut, threadVars, batchVars, mergeVars, queryVars, rq>>

\* POST /events
add_event(reqId, p) ==
  /\ \E saved \in FolderIds :
       /\ _ensure_saved_folder(saved)
       /\ \E events \in _download_events(saved) :
            LET ev == Event(IF reqId # "" THEN reqId ELSE uuid4(events), p)
                new_events == Put(ById(events), ev)
            IN IF Invalid(ev)
                 THEN /\ resp' = Response("upsert", 400, ev.id, reqId = "", <<>>)
                      /\ UNCHANGED <<files, lastMut>>
                 ELSE /\ Len(new_events) <= MaxEvents
                      /\ _upload_events(saved, new_events)
                      /\ resp' = Response("upsert", 200, ev.id, reqId = "", new_events)
                      /\ lastMut' = [op |-> "upsert", events |-> <<>>]
  /\ UNCHANGED <<threadVars, batchVars, mergeVars, queryVars, rq>>

\* PUT /events
replace_events(events) ==
  /\ IF \E i \in 1..Len(events) : Invalid(events[i])
       THEN /\ resp' = Response("replace", 400, "", FALSE, <<>>)
            /\ UNCHANGED <<storeVars, lastMut>>
       ELSE /\ \E saved \in FolderIds :
                 /\ _ensure_saved_folder(saved)
                 /\ _upload_events(saved, events)
            /\ resp' = Response("replace", 200, "", FALSE, events)
            /\ lastMut' = [op |-> "replace", events |-> events]
  /\ UNCHANGED <<threadVars, batchVars, mergeVars, queryVars, rq>>

\* a filter that keeps the events it should drop
Only(events, id) ==
  LET keep == {i \in 1..Len(events) : events[i].id = id}
      nth(k) == CHOOSE i \in keep : Cardinality({j \in keep : j < i}) = k - 1
  IN [k \in 1..Cardinality(keep) |-> events[nth(k)]]

\* [e for e in events if e.id != event_id]
Without(events, id) ==
  LET keep == {i \in 1..Len(events) : events[i].id # id}
      nth(k) == CHOOSE i \in keep : Cardinality({j \in keep : j < i}) = k - 1
  IN [k \in 1..Cardinality(keep) |-> events[nth(k)]]

\* DELETE /events/{event_id}
delete_event(id) ==
  /\ \E saved \in FolderIds :
       /\ _ensure_saved_folder(saved)
       /\ \E events \in _download_events(saved) :
            /\ _upload_events(saved, Without(events, id))
            /\ resp' = Response("delete", 200, id, FALSE, Without(events, id))
  /\ lastMut' = [op |-> "delete", events |-> <<>>]
  /\ UNCHANGED <<threadVars, batchVars, mergeVars, queryVars, rq>>

(* -------------------------- _merge_intervals -------------------------- *)

\* the largest instant of an interval's bounds
MaxT == 3
\* intervals in one call
MaxRanges == 3

\* closed intervals (start, end) with start <= end
Intervals == {<<a, b>> : a \in 0..MaxT, b \in 0..MaxT} \ {iv \in (0..MaxT) \X (0..MaxT) : iv[2] < iv[1]}

\* one step of sorted(key=x[0]): x goes after every element whose start is not larger
Insert(sorted, x) ==
  LET k == Cardinality({i \in 1..Len(sorted) : sorted[i][1] <= x[1]})
  IN SubSeq(sorted, 1, k) \o <<x>> \o SubSeq(sorted, k + 1, Len(sorted))

\* sorted(ranges, key=lambda x: x[0]), which is stable
RECURSIVE Sorted(_)
Sorted(ranges) ==
  IF ranges = <<>> THEN <<>>
  ELSE Insert(Sorted(SubSeq(ranges, 1, Len(ranges) - 1)), ranges[Len(ranges)])

\* the sweep that starts a new run at a touching interval
RECURSIVE SweepStrict(_, _, _)
SweepStrict(rest, cur, merged) ==
  IF rest = <<>> THEN Append(merged, cur)
  ELSE LET s == Head(rest)[1]
           e == Head(rest)[2]
       IN IF s < cur[2]
            THEN SweepStrict(Tail(rest), <<cur[1], IF e > cur[2] THEN e ELSE cur[2]>>, merged)
            ELSE SweepStrict(Tail(rest), <<s, e>>, Append(merged, cur))

\* the loop of _merge_intervals over ranges[1:], cur = (cur_s, cur_e)
RECURSIVE Sweep(_, _, _)
Sweep(rest, cur, merged) ==
  IF rest = <<>> THEN Append(merged, cur)
  ELSE LET s == Head(rest)[1]
           e == Head(rest)[2]
       IN IF s <= cur[2]
            THEN Sweep(Tail(rest), <<cur[1], IF e > cur[2] THEN e ELSE cur[2]>>, merged)
            ELSE Sweep(Tail(rest), <<s, e>>, Append(merged, cur))

_merge_intervals(ranges) ==
  IF ranges = <<>> THEN <<>>
  ELSE Sweep(Tail(Sorted(ranges)), Head(Sorted(ranges)), <<>>)

\* merged = _merge_intervals(chosen)
Merge ==
  /\ mpc = "call"
  /\ mOut' = _merge_intervals(mIn)
  /\ mpc' = "done"
  /\ UNCHANGED <<mIn, storeVars, threadVars, batchVars, eventVars, queryVars, rq>>

(* ------------------------- datetimes and text -------------------------- *)

\* text handled character by character is a sequence of one-character strings

DigitChars == {ToString(d) : d \in 0..9}

DigitVal(c) == CHOOSE d \in 0..9 : ToString(d) = c

\* the decimal digits of n, without padding
RECURSIVE Digits(_)
Digits(n) ==
  IF n < 10 THEN <<ToString(n)>> ELSE Append(Digits(n \div 10), ToString(n % 10))

\* strftime's %m, %d, %H, %M, %S: two digits
Pad2(n) == IF n < 10 THEN <<"0">> \o Digits(n) ELSE Digits(n)

AllDigits(cs) == \A i \in 1..Len(cs) : cs[i] \in DigitChars

\* int() of a run of digits
RECURSIVE Num(_)
Num(cs) ==
  IF cs = <<>> THEN 0
  ELSE 10 * Num(SubSeq(cs, 1, Len(cs) - 1)) + DigitVal(cs[Len(cs)])

\* a naive datetime
datetime(y, m, d, H, M, S, us) ==
  [y |-> y, m |-> m, d |-> d, H |-> H, M |-> M, S |-> S, us |-> us]

\* None where a datetime is expected (no datetime has year 0)
NoDt == datetime(0, 0, 0, 0, 0, 0, 0)

IsLeap(y) == (y % 4 = 0 /\ y % 100 # 0) \/ y % 400 = 0

DaysInMonth(y, m) ==
  CASE m = 2 -> IF IsLeap(y) THEN 29 ELSE 28
    [] m \in {4, 6, 9, 11} -> 30
    [] OTHER -> 31

\* the text cut into its maximal runs of digits and its other characters
RECURSIVE Tokens(_)
Tokens(cs) ==
  IF cs = <<>> THEN <<>>
  ELSE LET rest == Tokens(Tail(cs))
       IN IF Head(cs) \in DigitChars /\ rest # <<>> /\ AllDigits(Head(rest))
            THEN <<<<Head(cs)>> \o Head(rest)>> \o Tail(rest)
            ELSE <<<<Head(cs)>>>> \o rest

\* datetime.strptime(cs, "%Y<dsep>%m<dsep>%d %H<tsep>%M<tsep>%S"), NoDt for
\* ValueError: a year of four digits, the other fields of one or two digits and
\* in range, nothing before or after; a run of several blanks is not modelled
strptime(cs, dsep, tsep) ==
  LET tk == Tokens(cs)
      f(i) == tk[2 * i - 1]
      v(i) == Num(f(i))
  IN IF /\ Len(tk) = 11
        /\ \A i \in 1..6 : AllDigits(f(i))
        /\ Len(f(1)) = 4
        /\ \A i \in 2..6 : Len(f(i)) <= 2
        /\ tk[2] = <<dsep>> /\ tk[4] = <<dsep>>
        /\ tk[6] = <<" ">>
        /\ tk[8] = <<tsep>> /\ tk[10] = <<tsep>>
        /\ v(1) >= 1
        /\ v(2) \in 1..12
        /\ v(3) >= 1 /\ v(3) <= DaysInMonth(v(1), v(2))
        /\ v(4) <= 23 /\ v(5) <= 59 /\ v(6) <= 59
       THEN datetime(v(1), v(2), v(3), v(4), v(5), v(6), 0)
       ELSE NoDt

\* dt.strftime("%Y-%m-%d"); glibc's %Y does not pad the year
format_date_folder(dt) ==
  Digits(dt.y) \o <<"-">> \o Pad2(dt.m) \o <<"-">> \o Pad2(dt.d)

\* dt.strftime("%H-%M-%S")
format_time_for_name(dt) ==
  Pad2(dt.H) \o <<"-">> \o Pad2(dt.M) \o <<"-">> \o Pad2(dt.S)

\* re.match(r"^(\d{4}-\d{2}-\d{2})_(\d{2}-\d{2}-\d{2})", name)
NameMatches(name) ==
  /\ Len(name) >= 19
  /\ \A i \in {1, 2, 3, 4, 6, 7, 9, 10, 12, 13, 15, 16, 18, 19} : name[i] \in DigitChars
  /\ \A i \in {5, 8, 14, 17} : name[i] = "-"
  /\ name[11] = "_"

\* _parse_dt_from_name, NoDt for None
_parse_dt_from_name(name) ==
  IF ~NameMatches(name) THEN NoDt
  ELSE strptime(SubSeq(name, 1, 10) \o <<" ">> \o SubSeq(name, 12, 19), "-", "-")

\* a text as a string, the form folder names have in the store
RECURSIVE Str(_)
Str(cs) == IF cs = <<>> THEN "" ELSE Str(SubSeq(cs, 1, Len(cs) - 1)) \o cs[Len(cs)]

(* ----------------------------- find_photos ---------------------------- *)

Fields(dt) == <<dt.y, dt.m, dt.d, dt.H, dt.M, dt.S, dt.us>>

\* a < b on naive datetimes
Before(a, b) ==
  \E i \in 1..7 :
    /\ Fields(a)[i] < Fields(b)[i]
    /\ \A j \in 1..(i - 1) : Fields(a)[j] = Fields(b)[j]

\* datetime.strptime(cs, "%Y-%m-%d"), NoDt for ValueError
strptime_date(cs) ==
  LET tk == Tokens(cs)
      f(i) == tk[2 * i - 1]
      v(i) == Num(f(i))
  IN IF /\ Len(tk) = 5
        /\ \A i \in 1..3 : AllDigits(f(i))
        /\ Len(f(1)) = 4 /\ Len(f(2)) <= 2 /\ Len(f(3)) <= 2
        /\ tk[2] = <<"-">> /\ tk[4] = <<"-">>
        /\ v(1) >= 1
        /\ v(2) \in 1..12
        /\ v(3) >= 1 /\ v(3) <= DaysInMonth(v(1), v(2))
       THEN datetime(v(1), v(2), v(3), 0, 0, 0, 0)
       ELSE NoDt

\* dt + timedelta(days=1)
NextDay(dt) ==
  IF dt.d < DaysInMonth(dt.y, dt.m) THEN [dt EXCEPT !.d = @ + 1]
  ELSE IF dt.m < 12 THEN [dt EXCEPT !.m = @ + 1, !.d = 1]
  ELSE [dt EXCEPT !.y = @ + 1, !.m = 1, !.d = 1]

\* dt + timedelta(days=i)
RECURSIVE PlusDays(_, _)
PlusDays(dt, i) == IF i = 0 THEN dt ELSE NextDay(PlusDays(dt, i - 1))

\* the calendar date of dt, at midnight
DateOf(dt) == datetime(dt.y, dt.m, dt.d, 0, 0, 0, 0)

\* (b.date() - a.date()).days for a.date() <= b.date()
RECURSIVE DaySpan(_, _)
DaySpan(a, b) == IF DateOf(a) = DateOf(b) THEN 0 ELSE 1 + DaySpan(NextDay(a), b)

\* a range that leaves the end date out
daysExclusive(start_dt, end_dt) == DaySpan(start_dt, end_dt)

\* days = (end_dt - start_dt).days + 1
days(start_dt, end_dt) == DaySpan(start_dt, end_dt) + 1

\* [(start_dt + timedelta(days=i)).strftime("%Y-%m-%d") for i in range(n)]
date_names(start_dt, n) ==
  [k \in 1..n |-> format_date_folder(PlusDays(start_dt, k - 1))]

\* DriveClient.find_folder_id
find_folder_id(name, parent) == _find_folder(name, parent)

\* the elements of a set of numbers, ascending
RECURSIVE Ascending(_)
Ascending(S) == IF S = {} THEN <<>> ELSE <<Min(S)>> \o Ascending(S \ {Min(S)})

\* image/* and video/* files
IsMedia(file) == file.content = "media"

\* DriveClient.list_media_in_folder: the media directly in the folder, as listed
list_media_in_folder(fid) ==
  LET ids == Ascending({i \in 1..Len(files) : files[i].parent = fid /\ IsMedia(files[i])})
  IN [k \in 1..Len(ids) |-> [id |-> ids[k], name |-> files[ids[k]].name, folder |-> ""]]

Tagged(media, dname) == [k \in 1..Len(media) |-> [media[k] EXCEPT !.folder = dname]]

\* _work over the first n date names; pick[k] is what find_folder_id returned
RECURSIVE Work(_, _, _)
Work(names, pick, n) ==
  IF n = 0 THEN [folders |-> <<>>, items |-> <<>>]
  ELSE LET done == Work(names, pick, n - 1)
       IN IF pick[n] = NoId THEN done
          ELSE [folders |-> Append(done.folders, [id |-> pick[n], name |-> Str(names[n])]),
                items |-> done.items \o Tagged(list_media_in_folder(pick[n]), Str(names[n]))]

\* what the find_folder_id calls for the first n names can return, call by call
RECURSIVE Picks(_, _)
Picks(names, n) ==
  IF n = 0 THEN {<<>>}
  ELSE {Append(p, id) : p \in Picks(names, n - 1),
                        id \in find_folder_id(Str(names[n]), mainParent)}

Answer(op, status, fs, items) ==
  [op |-> op, status |-> status, folders |-> fs, items |-> items]

\* the request, and the calls of the Drive made for it
Asked(start, end, calls) == [start |-> start, end |-> end, calls |-> calls]

\* the lookups of _work and its listings of the folders found
Calls(pick, n) == n + Cardinality({k \in 1..n : pick[k] # NoId})

\* a handler that takes a range whose end is before its start as an empty one
find_photos_unordered(start, end) ==
  /\ LET start_dt == strptime_date(start)
         end_dt == IF end # <<>> THEN strptime_date(end) ELSE start_dt
     IN IF start_dt = NoDt \/ end_dt = NoDt
          THEN /\ qout' = Answer("find_photos", 400, <<>>, <<>>)
               /\ qin' = Asked(start, end, 0)
          ELSE /\ qout' = Answer("find_photos", 200, <<>>, <<>>)
               /\ qin' = Asked(start, end, 0)
  /\ qpc' = "done"
  /\ UNCHANGED <<storeVars, threadVars, batchVars, eventVars, mergeVars, rq>>

\* GET /find_photos
find_photos(start, end) ==
  /\ LET start_dt == strptime_date(start)
         end_dt == IF end # <<>> THEN strptime_date(end) ELSE start_dt
     IN IF start_dt = NoDt \/ end_dt = NoDt \/ Before(end_dt, start_dt)
          THEN /\ qout' = Answer("find_photos", 400, <<>>, <<>>)
               /\ qin' = Asked(start, end, 0)
          ELSE LET n == days(start_dt, end_dt)
                   names == date_names(start_dt, n)
               IN \E pick \in Picks(names, n) :
                    /\ qout' = Answer("find_photos", 200, Work(names, pick, n).folders,
                                      Work(names, pick, n).items)
                    /\ qin' = Asked(start, end, Calls(pick, n))
  /\ qpc' = "done"
  /\ UNCHANGED <<storeVars, threadVars, batchVars, eventVars, mergeVars, rq>>

(* ------------------------- get_capture_datetime ------------------------ *)

HEIC_EXTS ==
  { <<".", "heic">>, <<".", "heif">>, <<".", "heics">>, <<".", "avif">> }

\* in priority order
EXIF_DATE_TAGS ==
  <<"EXIF DateTimeOriginal", "EXIF DateTimeDigitized", "Image DateTime">>

\* str.lower on the pieces of a file name
lower(name) ==
  [i \in 1..Len(name) |->
     CASE name[i] = "HEIC" -> "heic"
       [] name[i] = "JPG" -> "jpg"
       [] OTHER -> name[i]]

\* a parser that knows the colon format only
parse_exif_colon(dt_str) == strptime(dt_str, ":", ":")

\* parse_exif_datetime: "%Y:%m:%d %H:%M:%S", then "%Y-%m-%d %H:%M:%S", else None
parse_exif_datetime(dt_str) ==
  IF strptime(dt_str, ":", ":") # NoDt THEN strptime(dt_str, ":", ":")
  ELSE strptime(dt_str, "-", ":")

\* the outcome of a piece of code: a value, or an exception on its way up
Ok(v) == [exc |-> FALSE, val |-> v]

Raised == [exc |-> TRUE, val |-> NoDt]

\* try: ... except Exception: pass -- an exception counts as nothing found
Guard(r) == IF r.exc THEN Ok(NoDt) ELSE r

\* for key in EXIF_DATE_TAGS from the i-th on: the first key in tags whose
\* value parses
RECURSIVE FirstTag(_, _)
FirstTag(tags, i) ==
  IF i > Len(EXIF_DATE_TAGS) THEN NoDt
  ELSE IF /\ EXIF_DATE_TAGS[i] \in DOMAIN tags
          /\ parse_exif_datetime(tags[EXIF_DATE_TAGS[i]]) # NoDt
         THEN parse_exif_datetime(tags[EXIF_DATE_TAGS[i]])
         ELSE FirstTag(tags, i + 1)

\* the body of the first try: p.open, exifread.process_file, the loop
DirectRead(q) ==
  IF q.open = "raises" \/ q.process = "raises" THEN Raised
  ELSE Ok(FirstTag(q.tags, 1))

\* the body of the HEIC try: pillow_heif imported or not, read_heif, the EXIF
\* block from hf.info or hf.metadata, exifread.process_file under its own try
HeifRead(q) ==
  IF q.heif = "missing" THEN Ok(NoDt)
  ELSE IF q.open = "raises" THEN Raised
  ELSE IF q.heif = "none" THEN Ok(NoDt)
  ELSE Guard(IF q.process = "raises" THEN Raised ELSE Ok(FirstTag(q.tags, 1)))

\* a timestamp: None, a number of seconds, a number beyond the platform's
\* time_t, or NaN
TS(kind, v) == [kind |-> kind, v |-> v]

\* isinstance(ts, (int, float)) and ts > 0
IsPositive(ts) == (ts.kind = "num" /\ ts.v > 0) \/ ts.kind = "huge"

\* the offset of local time from UTC, in seconds
TzOffset == 19800

\* the local naive datetime of an epoch second
Local(v) ==
  LET sec == v + TzOffset
      r == sec % 86400
  IN [PlusDays(datetime(1970, 1, 1, 0, 0, 0, 0), sec \div 86400)
        EXCEPT !.H = r \div 3600, !.M = (r % 3600) \div 60, !.S = r % 60]

\* datetime.fromtimestamp: OverflowError, OSError or ValueError beyond the range
fromtimestamp(ts) == IF ts.kind = "num" THEN Ok(Local(ts.v)) ELSE Raised

\* the body of _fs_timestamp_datetime's try
FsRead(q) ==
  IF q.stat.fails THEN Raised
  ELSE IF IsPositive(q.stat.birth) THEN fromtimestamp(q.stat.birth)
  ELSE IF q.stat.nt THEN fromtimestamp(q.stat.ctime)
  ELSE fromtimestamp(q.stat.mtime)

\* _fs_timestamp_datetime without its except clause
_fs_timestamp_unguarded(q) == FsRead(q)

\* _fs_timestamp_datetime: except Exception: return datetime.now()
_fs_timestamp_datetime(q) == IF FsRead(q).exc THEN Ok(q.now) ELSE FsRead(q)

\* a fallback sequence that ignores the client's timestamp
FallbackFsOnly(q) == _fs_timestamp_datetime(q)

\* the fallback sequence: the client's timestamp, then the filesystem's
Fallback(q) ==
  LET client == IF IsPositive(q.fallback) THEN Guard(fromtimestamp(q.fallback))
                ELSE Ok(NoDt)
  IN IF client.val # NoDt THEN client ELSE _fs_timestamp_datetime(q)

\* get_capture_datetime(path, fallback_ts)
get_capture_datetime(q) ==
  LET found == IF suffix(lower(q.name)) \notin HEIC_EXTS
                 THEN Guard(DirectRead(q))
                 ELSE Guard(HeifRead(q))
  IN IF found.exc \/ found.val # NoDt THEN found ELSE Fallback(q)

\* one call
Resolve ==
  /\ qpc = "call"
  /\ qout' = get_capture_datetime(qin)
  /\ qpc' = "done"
  /\ UNCHANGED <<qin, storeVars, threadVars, batchVars, eventVars, mergeVars, rq>>

\* a name made by the upload's formatting is parsed back
ParseBack ==
  /\ qpc = "name"
  /\ qout' = _parse_dt_from_name(format_date_folder(qin.dt) \o <<"_">>
                                   \o format_time_for_name(qin.dt) \o qin.ext)
  /\ qpc' = "done"
  /\ UNCHANGED <<qin, storeVars, threadVars, batchVars, eventVars, mergeVars, rq>>

(* ---------------------------- find_by_events -------------------------- *)

\* the datetime that fromisoformat's number of minutes stands for
At(n) ==
  [PlusDays(datetime(2025, 2, 1, 0, 0, 0, 0), n \div 1440)
     EXCEPT !.H = (n % 1440) \div 60, !.M = n % 60]

\* by_id.get(eid): the event kept under this id, if any
Lookup(events, eid) ==
  {ById(events)[i] : i \in {j \in 1..Len(ById(events)) : ById(events)[j].id = eid}}

\* an interval taken as it is stored
Unswapped(s, e) == <<s, e>>

\* if e < s: s, e = e, s
Normalized(s, e) == IF e < s THEN <<e, s>> ELSE <<s, e>>

\* the loop over req.eventIds: the intervals of the events found
RECURSIVE Chosen(_, _)
Chosen(events, eventIds) ==
  IF eventIds = <<>> THEN <<>>
  ELSE LET before == Chosen(events, SubSeq(eventIds, 1, Len(eventIds) - 1))
           found == Lookup(events, eventIds[Len(eventIds)])
       IN IF found = {} THEN before
          ELSE LET ev == CHOOSE x \in found : TRUE
               IN IF fromisoformat(ev.start) = -1 \/ fromisoformat(ev.end) = -1
                    THEN before
                    ELSE Append(before, Normalized(fromisoformat(ev.start),
                                                   fromisoformat(ev.end)))

\* _dates_between(s, e): range(days + 1) is empty when e's date is before s's
_dates_between(s, e) ==
  IF Before(DateOf(At(e)), DateOf(At(s))) THEN <<>>
  ELSE date_names(DateOf(At(s)), DaySpan(At(s), At(e)) + 1)

\* ord() of the characters of a date name
CharOrd(c) == IF c = "-" THEN 45 ELSE 48 + DigitVal(c)

\* a < b on texts
TextLess(a, b) ==
  \/ Len(a) < Len(b) /\ SubSeq(b, 1, Len(a)) = a
  \/ \E i \in 1..Min({Len(a), Len(b)}) :
       /\ CharOrd(a[i]) < CharOrd(b[i])
       /\ \A j \in 1..(i - 1) : a[j] = b[j]

\* sorted(set(dates_needed))
RECURSIVE SortedTexts(_)
SortedTexts(S) ==
  IF S = {} THEN <<>>
  ELSE LET least == CHOOSE x \in S : \A y \in S \ {x} : TextLess(x, y)
       IN <<least>> \o SortedTexts(S \ {least})

\* the date names of all the merged intervals
dates_needed(merged) ==
  SortedTexts(UNION {{_dates_between(merged[i][1], merged[i][2])[k] :
                        k \in 1..Len(_dates_between(merged[i][1], merged[i][2]))} :
                     i \in 1..Len(merged)})

\* a window without its two ends
InWindowOpen(dt, iv) == Before(At(iv[1]), dt) /\ Before(dt, At(iv[2]))

\* s <= dt <= e
InWindow(dt, iv) == ~Before(dt, At(iv[1])) /\ ~Before(At(iv[2]), dt)

\* the media whose name gives a time inside one of the merged intervals
Kept(media, merged) ==
  LET Test(it) == /\ _parse_dt_from_name(it.name) # NoDt
                  /\ \E i \in 1..Len(merged) :
                       InWindow(_parse_dt_from_name(it.name), merged[i])
  IN SelectSeq(media, Test)

\* the loop over dates_needed, for its first n names
RECURSIVE WorkEvents(_, _, _, _)
WorkEvents(names, pick, merged, n) ==
  IF n = 0 THEN [folders |-> <<>>, items |-> <<>>]
  ELSE LET done == WorkEvents(names, pick, merged, n - 1)
       IN IF pick[n] = NoId THEN done
          ELSE [folders |-> Append(done.folders, [id |-> pick[n], name |-> Str(names[n])]),
                items |-> done.items
                            \o Tagged(Kept(list_media_in_folder(pick[n]), merged),
                                      Str(names[n]))]

\* the sort key of an item: the time in its name, or datetime.min
ItemKey(it) ==
  IF _parse_dt_from_name(it.name) = NoDt THEN datetime(1, 1, 1, 0, 0, 0, 0)
  ELSE _parse_dt_from_name(it.name)

\* items.sort(key=...), one insertion: after every item whose key is not larger
InsertItem(sorted, x) ==
  LET k == Cardinality({i \in 1..Len(sorted) : ~Before(ItemKey(x), ItemKey(sorted[i]))})
  IN SubSeq(sorted, 1, k) \o <<x>> \o SubSeq(sorted, k + 1, Len(sorted))

RECURSIVE SortedItems(_)
SortedItems(items) ==
  IF items = <<>> THEN <<>>
  ELSE InsertItem(SortedItems(SubSeq(items, 1, Len(items) - 1)), items[Len(items)])

\* POST /find_by_events
find_by_events(eventIds) ==
  /\ \E saved \in FolderIds :
       /\ _ensure_saved_folder(saved)
       /\ \E events \in _download_events(saved) :
            LET chosen == Chosen(events, eventIds)
                merged == _merge_intervals(chosen)
                names == dates_needed(merged)
            IN IF chosen = <<>>
                 THEN qout' = Answer("find_by_events", 200, <<>>, <<>>)
                 ELSE \E pick \in Picks(names, Len(names)) :
                        LET out == WorkEvents(names, pick, merged, Len(names))
                        IN qout' = Answer("find_by_events", 200, out.folders,
                                          SortedItems(out.items))
  /\ qin' = [eventIds |-> eventIds]
  /\ qpc' = "done"
  /\ UNCHANGED <<files, threadVars, batchVars, eventVars, mergeVars, rq>>

(* --------------------------- initial states --------------------------- *)

\* the stores a deployment can start on: the main folder configured or not,
\* a date folder already there or not, a same-named folder elsewhere
Taken == <<"2025-03-01", "_", TimePart>>

InitialStores ==
  { [main |-> NoId, folders |-> <<>>, files |-> <<>>],
    [main |-> NoId, folders |-> <<Folder("2025-03-01", NoId)>>, files |-> <<>>],
    [main |-> NoId, files |-> <<>>,
     folders |-> <<Folder("other", NoId), Folder("2025-03-01", 1)>>],
    [main |-> 1, folders |-> <<Folder("main", NoId)>>, files |-> <<>>],
    [main |-> 1, files |-> <<>>,
     folders |-> <<Folder("main", NoId), Folder("2025-03-01", 1)>>],
    [main |-> 1,
     folders |-> <<Folder("main", NoId), Folder("2025-03-01", 1)>>,
     files |-> <<File(Taken \o <<".", "jpg">>, 2, "media"),
                 File(Taken \o <<"-", "2", ".", "jpg">>, 2, "media")>>],
    [main |-> 1, files |-> <<>>,
     folders |-> <<Folder("main", NoId), Folder("other", NoId),
                   Folder("2025-03-01", 2)>>] }

InitStore ==
  /\ \E s \in InitialStores :
       mainParent = s.main /\ folders = s.folders /\ files = s.files
  /\ cache = <<>>
  /\ locks = {}
  /\ held = {}

\* a store nothing was uploaded to
InitNoStore ==
  /\ mainParent = NoId
  /\ folders = <<>>
  /\ files = <<>>
  /\ cache = <<>>
  /\ locks = {}
  /\ held = {}

InitThreads ==
  /\ th = [t \in Threads |-> Idle]
  /\ createCalls = [d \in DateNames |-> 0]
  /\ createFails = [d \in DateNames |-> 0]
  /\ returned = {}
  /\ log = {}

RECURSIVE SeqsUpTo(_, _)
SeqsUpTo(S, n) ==
  IF n = 0 THEN {<<>>}
  ELSE LET shorter == SeqsUpTo(S, n - 1)
       IN shorter \cup {Append(q, x) : q \in shorter, x \in S}

\* no /upload request under way
InitNoBatch ==
  /\ hpc = "off"
  /\ batch = <<>>
  /\ idx = 1
  /\ results = <<>>
  /\ temps = {}
  /\ worker = NoId

\* one /upload request arrives with its files
InitBatch ==
  /\ hpc = "loop"
  /\ batch \in SeqsUpTo(OrigNames, MaxFiles)
  /\ idx = 1
  /\ results = <<>>
  /\ temps = {}
  /\ worker = NoId

(* ---------- concurrent _process_sync jobs of several requests --------- *)

\* no /events request answered yet
InitNoEvents ==
  /\ resp = Response("none", 0, "", FALSE, <<>>)
  /\ lastMut = [op |-> "none", events |-> <<>>]

\* _merge_intervals not called
InitNoMerge ==
  /\ mIn = <<>>
  /\ mOut = <<>>
  /\ mpc = "off"

\* no query under way
InitNoQuery ==
  /\ qin = <<>>
  /\ qout = <<>>
  /\ qpc = "off"

\* no request of another process
InitNoRace == rq = <<>>

InitRest == InitNoQuery /\ InitNoRace

Init ==
  InitStore /\ InitThreads /\ InitNoBatch /\ InitNoEvents /\ InitNoMerge /\ InitRest

Next == \E t \in Threads : StartJob(t) \/ ThreadStep(t)

Spec == Init /\ [][Next]_vars

(* ------------------- one /upload request, alone ----------------------- *)

InitUpload ==
  InitStore /\ InitThreads /\ InitBatch /\ InitNoEvents /\ InitNoMerge /\ InitRest

NextUpload == HandlerStep \/ \E t \in Threads : ThreadStep(t)

SpecUpload == InitUpload /\ [][NextUpload]_vars

(* ------------- the /events handlers of one process -------------------- *)

\* the store of a fresh deployment, or one an earlier run left
InitStoreEvents ==
  /\ \/ /\ mainParent = NoId
        /\ folders = <<>>
        /\ files = <<>>
     \/ /\ mainParent = 1
        /\ folders = <<Folder("main", NoId), Folder(SAVED_FOLDER_NAME, 1)>>
        /\ files = <<File(EVENTS_FILENAME, 2,
                          Encode(<<Event("a", CHOOSE p \in Payloads : p.name = "y")>>))>>
  /\ cache = <<>>
  /\ locks = {}
  /\ held = {}

InitEvents ==
  InitStoreEvents /\ InitThreads /\ InitNoBatch /\ InitNoEvents /\ InitNoMerge
  /\ InitRest

NextEvents ==
  \/ get_events
  \/ \E reqId \in ClientIds \cup {""}, p \in Payloads : add_event(reqId, p)
  \/ \E events \in SeqsUpTo(SampleEvents, MaxEvents) : replace_events(events)
  \/ \E id \in ClientIds \cup Uuids : delete_event(id)

SpecEvents == InitEvents /\ [][NextEvents]_vars

(* ------------------- _merge_intervals on its inputs ------------------- *)

InitMerge ==
  /\ mIn \in SeqsUpTo(Intervals, MaxRanges)
  /\ mOut = <<>>
  /\ mpc = "call"
  /\ InitStore /\ InitThreads /\ InitNoBatch /\ InitNoEvents /\ InitRest

NextMerge == Merge

SpecMerge == InitMerge /\ [][NextMerge]_vars

(* ------------------- GET /find_photos on a fixed store ----------------- *)

\* four consecutive days across a year's end
SampleDays ==
  { datetime(2024, 12, 31, 0, 0, 0, 0), datetime(2025, 1, 1, 0, 0, 0, 0),
    datetime(2025, 1, 2, 0, 0, 0, 0), datetime(2025, 1, 3, 0, 0, 0, 0) }

\* a date written without the zeros that pad month and day
Unpadded(d) == Digits(d.y) \o <<"-">> \o Digits(d.m) \o <<"-">> \o Digits(d.d)

\* what a client sends as start and end: those days, a day no month has, no
\* date, and 2025-1-2
QueryDates ==
  {format_date_folder(d) : d \in SampleDays} \cup
  { <<"2", "0", "2", "5", "-", "0", "1", "-", "3", "2">>, <<"s", "o", "o", "n">>,
    Unpadded(datetime(2025, 1, 2, 0, 0, 0, 0)) }

JpgExt == <<".", "j", "p", "g">>

\* the files of the date folder fid of day d: two uploads and a text file
FolderFiles(d, fid) ==
  << File(format_date_folder(d) \o <<"_">> \o format_time_for_name(d) \o JpgExt, fid, "media"),
     File(<<"n", "o", "t", "e", "s", ".", "t", "x", "t">>, fid, "text"),
     File(format_date_folder(d) \o <<"_">> \o format_time_for_name(d)
            \o <<"-", "1">> \o JpgExt, fid, "media") >>

\* the date folders of the days of S under parent, latest day first, after the
\* folders before
RECURSIVE WithDateFolders(_, _, _)
WithDateFolders(S, parent, st) ==
  IF S = {} THEN st
  ELSE LET d == CHOOSE x \in S : \A y \in S : ~Before(x, y)
           fid == Len(st.folders) + 1
       IN WithDateFolders(S \ {d}, parent,
            [folders |-> Append(st.folders, Folder(Str(format_date_folder(d)), parent)),
             files |-> st.files \o FolderFiles(d, fid)])

\* the root configured (with a same-named folder outside it) or not
InitStoreFind ==
  /\ \E S \in SUBSET SampleDays :
       \/ /\ mainParent = NoId
          /\ folders = WithDateFolders(S, NoId, [folders |-> <<>>, files |-> <<>>]).folders
          /\ files = WithDateFolders(S, NoId, [folders |-> <<>>, files |-> <<>>]).files
       \/ LET base == [folders |-> <<Folder("main", NoId), Folder("other", NoId),
                                     Folder("2025-01-02", 2)>>,
                       files |-> FolderFiles(datetime(2025, 1, 2, 0, 0, 0, 0), 3)]
          IN /\ mainParent = 1
             /\ folders = WithDateFolders(S, 1, base).folders
             /\ files = WithDateFolders(S, 1, base).files
  /\ cache = <<>>
  /\ locks = {}
  /\ held = {}

InitFind ==
  /\ InitStoreFind /\ InitThreads /\ InitNoBatch /\ InitNoEvents /\ InitNoMerge
  /\ InitRest

NextFind == \E start \in QueryDates, end \in QueryDates \cup {<<>>} : find_photos(start, end)

SpecFind == InitFind /\ [][NextFind]_vars

(* ------------------ get_capture_datetime on its inputs ----------------- *)

\* what tag number i decodes to, when its value is well formed
TagDt(i) == datetime(2020 + i, 3, i, 12, 0, i, 0)

\* a datetime written with the date separator dsep, as cameras write it
ExifText(dt, dsep) ==
  Digits(dt.y) \o <<dsep>> \o Pad2(dt.m) \o <<dsep>> \o Pad2(dt.d) \o <<" ">>
    \o Pad2(dt.H) \o <<":">> \o Pad2(dt.M) \o <<":">> \o Pad2(dt.S)

\* the value of tag number i: in either format, or the all-zero value of a
\* camera whose clock was never set
TagTexts(i) ==
  { ExifText(TagDt(i), ":"), ExifText(TagDt(i), "-"),
    <<"0", "0", "0", "0", ":", "0", "0", ":", "0", "0", " ",
      "0", "0", ":", "0", "0", ":", "0", "0">> }

\* the tags a file carries
TagSets ==
  UNION { {t \in [{EXIF_DATE_TAGS[i] : i \in S} -> UNION {TagTexts(i) : i \in 1..3}] :
             \A i \in S : t[EXIF_DATE_TAGS[i]] \in TagTexts(i)} :
          S \in SUBSET (1..3) }

Fallbacks ==
  { TS("none", 0), TS("num", 0), TS("num", -5), TS("num", 100), TS("huge", 0),
    TS("nan", 0) }

\* os.stat fails; macOS with a birth time; Windows; Linux; a birth time of 0
Stats ==
  { [fails |-> TRUE, birth |-> TS("none", 0), nt |-> FALSE,
     ctime |-> TS("num", 200000), mtime |-> TS("num", 300000)],
    [fails |-> FALSE, birth |-> TS("num", 400000), nt |-> FALSE,
     ctime |-> TS("num", 200000), mtime |-> TS("num", 300000)],
    [fails |-> FALSE, birth |-> TS("none", 0), nt |-> TRUE,
     ctime |-> TS("num", 200000), mtime |-> TS("num", 300000)],
    [fails |-> FALSE, birth |-> TS("none", 0), nt |-> FALSE,
     ctime |-> TS("num", 200000), mtime |-> TS("num", 300000)],
    [fails |-> FALSE, birth |-> TS("num", 0), nt |-> FALSE,
     ctime |-> TS("num", 200000), mtime |-> TS("huge", 0)] }

InitExif ==
  /\ qin \in [name : {<<"IMG", ".", "jpg">>, <<"IMG", ".", "HEIC">>},
              open : {"ok", "raises"},
              process : {"ok", "raises"},
              heif : {"missing", "none", "info", "metadata"},
              tags : TagSets,
              fallback : Fallbacks,
              stat : Stats,
              now : {datetime(2026, 1, 1, 8, 0, 0, 5)}]
  /\ qout = <<>>
  /\ qpc = "call"
  /\ InitNoStore /\ InitThreads /\ InitNoBatch /\ InitNoEvents /\ InitNoMerge
  /\ InitNoRace

NextExif == Resolve

SpecExif == InitExif /\ [][NextExif]_vars

(* --------------- names formatted and parsed back, on datetimes -------- *)

\* datetimes a capture can resolve to: early and four-digit years, single- and
\* two-digit fields, with and without microseconds
SampleDatetimes ==
  {dt \in [y : {1, 999, 1000, 2025}, m : {1, 2, 12}, d : {1, 9, 28, 31},
           H : {0, 9, 23}, M : {0, 59}, S : {0, 5, 59}, us : {0, 999999}] :
     dt.d <= DaysInMonth(dt.y, dt.m)}

\* what follows the time in a stored name
NameTails == { <<>>, JpgExt, <<"-", "1">> \o JpgExt, <<"1">> }

InitName ==
  /\ qin \in [dt : SampleDatetimes, ext : NameTails]
  /\ qout = <<>>
  /\ qpc = "name"
  /\ InitNoStore /\ InitThreads /\ InitNoBatch /\ InitNoEvents /\ InitNoMerge
  /\ InitNoRace

NextName == ParseBack

SpecName == InitName /\ [][NextName]_vars

(* --------------- POST /find_by_events on a fixed store ----------------- *)

\* event ids of one request
MaxEventIds == 2

\* the ids a client asks for; no stored event has the last one
AskedIds == {"a", "b", "zz"}

Stored(id, name, start, end) == [id |-> id, name |-> name, start |-> start, end |-> end]

\* the documents an earlier run, or a hand, left in events.json
StoredDocs ==
  LET a == Stored("a", "x", "2025-02-01T09:00", "2025-02-01T10:00")
  IN { <<>>,
       <<a>>,
       <<a, Stored("b", "y", "2025-02-01T10:00", "2025-02-02T09:00")>>,
       <<a, Stored("b", "y", "2025-02-02T09:00", "2025-02-01T10:00")>>,
       <<a, Stored("b", "y", "soon", "2025-02-02T09:00")>>,
       <<Stored("b", "y", "2025-02-02T09:00", "2025-02-02T09:00"), a>>,
       <<Stored("a", "y", "2025-02-02T09:00", "2025-02-02T09:00"), a>> }

EventDays == {datetime(2025, 2, 1, 0, 0, 0, 0), datetime(2025, 2, 2, 0, 0, 0, 0)}

\* a name the upload gives to a capture of that time
Upload(dt, tail) ==
  format_date_folder(dt) \o <<"_">> \o format_time_for_name(dt) \o tail

\* the media of the date folder fid of day d: uploads of several times of the
\* day, and files put there under names the upload never gives
EventFolderFiles(d, fid) ==
  << File(Upload([d EXCEPT !.H = 9, !.M = 30], JpgExt), fid, "media"),
     File(Upload([d EXCEPT !.H = 10], <<"-", "1">> \o JpgExt), fid, "media"),
     File(<<"I", "M", "G">> \o JpgExt, fid, "media"),
     File(Upload([d EXCEPT !.H = 10, !.S = 1], JpgExt), fid, "media"),
     File(Upload([d EXCEPT !.d = 30, !.H = 9, !.M = 30], JpgExt), fid, "media"),
     File(Upload([d EXCEPT !.H = 8, !.M = 59, !.S = 59], JpgExt), fid, "media"),
     File(Upload([d EXCEPT !.H = 9], JpgExt), fid, "media"),
     File(Upload(d, JpgExt), fid, "media") >>

RECURSIVE WithEventFolders(_, _, _)
WithEventFolders(S, parent, st) ==
  IF S = {} THEN st
  ELSE LET d == CHOOSE x \in S : \A y \in S : ~Before(x, y)
           fid == Len(st.folders) + 1
       IN WithEventFolders(S \ {d}, parent,
            [folders |-> Append(st.folders, Folder(Str(format_date_folder(d)), parent)),
             files |-> st.files \o EventFolderFiles(d, fid)])

InitStoreFindEvents ==
  /\ \E S \in SUBSET EventDays, doc \in StoredDocs :
       LET base == [folders |-> <<Folder("main", NoId), Folder(SAVED_FOLDER_NAME, 1)>>,
                    files |-> <<File(EVENTS_FILENAME, 2, Encode(doc))>>]
       IN /\ mainParent = 1
          /\ folders = WithEventFolders(S, 1, base).folders
          /\ files = WithEventFolders(S, 1, base).files
  /\ cache = <<>>
  /\ locks = {}
  /\ held = {}

InitFindEvents ==
  /\ InitStoreFindEvents /\ InitThreads /\ InitNoBatch /\ InitNoEvents /\ InitNoMerge
  /\ InitRest

NextFindEvents == \E eventIds \in SeqsUpTo(AskedIds, MaxEventIds) : find_by_events(eventIds)

SpecFindEvents == InitFindEvents /\ [][NextFindEvents]_vars

(* ------------- POST /events in two server processes ------------------- *)

\* A handler of routes/events.py has no await: one process runs it to its end
\* before it starts the next. Two processes serving the same Drive folder run
\* their handlers side by side, one remote call at a time.
Procs == {1, 2}

\* the ids the two clients send
RaceIds == {"b", "c"}

NoEvent == Event("", [name |-> "", start |-> "", end |-> ""])

\* a process with no request
Quiet ==
  [pc |-> "start", ev |-> NoEvent, saved |-> NoId, file |-> NoId, events |-> <<>>,
   new |-> <<>>, status |-> 0, wrote |-> NoId, at |-> 0]

RaceUnchanged ==
  UNCHANGED <<mainParent, folders, cache, locks, held, threadVars, batchVars,
              eventVars, mergeVars, queryVars>>

\* add_event up to _ensure_saved_folder's return: the folder exists, and the
\* process's own cache or its lookup gives its id
RaceEnsure(p, id, payload) ==
  /\ rq[p].pc = "start"
  /\ \E saved \in FolderMatches(SAVED_FOLDER_NAME, mainParent) :
       rq' = [rq EXCEPT ![p].pc = "lookup", ![p].saved = saved,
                        ![p].ev = Event(id, payload)]
  /\ UNCHANGED files
  /\ RaceUnchanged

\* the validation and the upsert by id, on the events read
Decided(r, events) ==
  IF Invalid(r.ev)
    THEN [r EXCEPT !.pc = "done", !.events = events, !.status = 400]
    ELSE [r EXCEPT !.pc = "find", !.events = events, !.new = Put(ById(events), r.ev)]

\* _download_events: the lookup of events.json
RaceLookup(p) ==
  /\ rq[p].pc = "lookup"
  /\ \E f \in _find_file_in_folder_by_name(rq[p].saved, EVENTS_FILENAME) :
       rq' = [rq EXCEPT ![p] = IF f = NoId THEN Decided(rq[p], <<>>)
                                ELSE [rq[p] EXCEPT !.pc = "download", !.file = f]]
  /\ UNCHANGED files
  /\ RaceUnchanged

\* _download_events: the download of the file found
RaceDownload(p) ==
  /\ rq[p].pc = "download"
  /\ rq' = [rq EXCEPT ![p] = Decided(rq[p], Decode(download_file_bytes(rq[p].file)))]
  /\ UNCHANGED files
  /\ RaceUnchanged

\* _upload_events: the lookup of events.json
RaceFind(p) ==
  /\ rq[p].pc = "find"
  /\ \E f \in _find_file_in_folder_by_name(rq[p].saved, EVENTS_FILENAME) :
       rq' = [rq EXCEPT ![p].pc = "put", ![p].file = f]
  /\ UNCHANGED files
  /\ RaceUnchanged

\* the number of the next write
NextWrite == Cardinality({q \in Procs : rq[q].at > 0}) + 1

\* _upload_events that reads the document again and upserts into what it finds
RacePutMerging(p) ==
  /\ rq[p].pc = "put"
  /\ IF rq[p].file # NoId
       THEN /\ files' = [files EXCEPT ![rq[p].file].content =
                           Encode(Put(ById(Decode(files[rq[p].file].content)), rq[p].ev))]
            /\ rq' = [rq EXCEPT ![p].pc = "done", ![p].status = 200,
                                ![p].wrote = rq[p].file, ![p].at = NextWrite]
       ELSE /\ files' = Append(files, File(EVENTS_FILENAME, rq[p].saved, Encode(rq[p].new)))
            /\ rq' = [rq EXCEPT ![p].pc = "done", ![p].status = 200,
                                ![p].wrote = Len(files) + 1, ![p].at = NextWrite]
  /\ RaceUnchanged

\* _upload_events: the update of the file found, or the create; add_event returns
RacePut(p) ==
  /\ rq[p].pc = "put"
  /\ IF rq[p].file # NoId
       THEN /\ files' = [files EXCEPT ![rq[p].file].content = Encode(rq[p].new)]
            /\ rq' = [rq EXCEPT ![p].pc = "done", ![p].status = 200,
                                ![p].wrote = rq[p].file, ![p].at = NextWrite]
       ELSE /\ files' = Append(files, File(EVENTS_FILENAME, rq[p].saved, Encode(rq[p].new)))
            /\ rq' = [rq EXCEPT ![p].pc = "done", ![p].status = 200,
                                ![p].wrote = Len(files) + 1, ![p].at = NextWrite]
  /\ RaceUnchanged

InitStoreRace ==
  /\ mainParent = 1
  /\ folders = <<Folder("main", NoId), Folder(SAVED_FOLDER_NAME, 1)>>
  /\ \/ files = <<>>
     \/ files = <<File(EVENTS_FILENAME, 2,
                       Encode(<<Event("a", CHOOSE p \in Payloads : p.name = "y")>>))>>
  /\ cache = <<>>
  /\ locks = {}
  /\ held = {}

InitRace ==
  /\ InitStoreRace /\ InitThreads /\ InitNoBatch /\ InitNoEvents /\ InitNoMerge
  /\ InitNoQuery
  /\ rq = [p \in Procs |-> Quiet]

NextRace ==
  \E p \in Procs :
    \/ \E id \in RaceIds, payload \in Payloads : RaceEnsure(p, id, payload)
    \/ RaceLookup(p)
    \/ RaceDownload(p)
    \/ RaceFind(p)
    \/ RacePut(p)

SpecRace == InitRace /\ [][NextRace]_vars

(* ------------- ensure_folder in two server processes ------------------ *)

\* ensure_folder calls of one process
MaxCalls == 2

\* _FOLDER_CACHE and _FOLDER_LOCKS are module globals: each process has its own
Fresh ==
  [pc |-> "idle", name |-> "", cache |-> <<>>, locks |-> {}, held |-> {},
   seen |-> {}, made |-> {}, got |-> <<>>, calls |-> 0, remote |-> 0]

ProcUnchanged ==
  UNCHANGED <<mainParent, files, cache, locks, held, threadVars, batchVars,
              eventVars, mergeVars, queryVars>>

PKey(p) == Key(mainParent, rq[p].name)

\* ensure_folder called: _get_folder_lock on the process's registry
PGetFolderLock(p, name) ==
  /\ rq[p].pc = "idle"
  /\ rq[p].calls < MaxCalls
  /\ rq' = [rq EXCEPT ![p].pc = "acquire", ![p].name = name,
                      ![p].calls = @ + 1, ![p].remote = 0,
                      ![p].locks = @ \cup {Key(mainParent, name)}]
  /\ UNCHANGED folders
  /\ ProcUnchanged

\* `with lock:` on the process's own mutex
PAcquire(p) ==
  /\ rq[p].pc = "acquire"
  /\ PKey(p) \notin rq[p].held
  /\ rq' = [rq EXCEPT ![p].pc = "cache", ![p].held = @ \cup {PKey(p)}]
  /\ UNCHANGED folders
  /\ ProcUnchanged

\* ensure_folder returns id to the process, after `remote` calls of the store;
\* stale: the store has no such folder under that name and parent any more
PReturned(r, key, id, remote, stale) ==
  [r EXCEPT !.pc = "idle", !.held = @ \ {key}, !.remote = remote,
            !.got = Append(@, [key |-> key, id |-> id, remote |-> remote,
                               stale |-> stale])]

\* a cache check that trusts an entry only while the store still has the folder
PCacheCheckValidating(p) ==
  /\ rq[p].pc = "cache"
  /\ rq' = [rq EXCEPT ![p] =
              IF /\ PKey(p) \in DOMAIN rq[p].cache
                 /\ rq[p].cache[PKey(p)] \in FolderMatches(rq[p].name, mainParent)
                THEN PReturned(rq[p], PKey(p), rq[p].cache[PKey(p)], 0, FALSE)
                ELSE [rq[p] EXCEPT !.pc = "find"]]
  /\ UNCHANGED folders
  /\ ProcUnchanged

\* the process's own cache is checked
PCacheCheck(p) ==
  /\ rq[p].pc = "cache"
  /\ rq' = [rq EXCEPT ![p] =
              IF PKey(p) \in DOMAIN rq[p].cache
                THEN PReturned(rq[p], PKey(p), rq[p].cache[PKey(p)], 0,
                               rq[p].cache[PKey(p)] \notin FolderMatches(rq[p].name,
                                                                         mainParent))
                ELSE [rq[p] EXCEPT !.pc = "find"]]
  /\ UNCHANGED folders
  /\ ProcUnchanged

\* a lookup that finds nothing, whatever the store holds
PFindBlind(p) ==
  /\ rq[p].pc = "find"
  /\ rq' = [rq EXCEPT ![p].pc = "create", ![p].remote = 1,
                      ![p].seen = FolderMatches(rq[p].name, mainParent)]
  /\ UNCHANGED folders
  /\ ProcUnchanged

\* self._find_folder(name, parent_id), and the return when it finds one
PFind(p) ==
  /\ rq[p].pc = "find"
  /\ \E id \in _find_folder(rq[p].name, mainParent) :
       rq' = [rq EXCEPT ![p] =
                IF id # NoId
                  THEN [PReturned(rq[p], PKey(p), id, 1, FALSE)
                          EXCEPT !.cache = (PKey(p) :> id) @@ @,
                                 !.seen = FolderMatches(rq[p].name, mainParent)]
                  ELSE [rq[p] EXCEPT !.pc = "create", !.remote = 1,
                                     !.seen = FolderMatches(rq[p].name, mainParent)]]
  /\ UNCHANGED folders
  /\ ProcUnchanged

\* files().create, the cache entry and the return
PCreate(p) ==
  /\ rq[p].pc = "create"
  /\ folders' = Append(folders, Folder(rq[p].name, mainParent))
  /\ rq' = [rq EXCEPT ![p] =
              [PReturned(rq[p], PKey(p), Len(folders) + 1, 2, FALSE)
                 EXCEPT !.cache = (PKey(p) :> Len(folders) + 1) @@ @,
                        !.made = @ \cup {Len(folders) + 1}]]
  /\ ProcUnchanged

InitProcs ==
  /\ mainParent = 1
  /\ \/ folders = <<Folder("main", NoId)>>
     \/ folders = <<Folder("main", NoId), Folder("2025-03-02", 1)>>
  /\ files = <<>>
  /\ cache = <<>>
  /\ locks = {}
  /\ held = {}
  /\ InitThreads /\ InitNoBatch /\ InitNoEvents /\ InitNoMerge /\ InitNoQuery
  /\ rq = [p \in Procs |-> Fresh]

NextProcs ==
  \E p \in Procs :
    \/ \E name \in DateNames : PGetFolderLock(p, name)
    \/ PAcquire(p)
    \/ PCacheCheck(p)
    \/ PFind(p)
    \/ PCreate(p)

SpecProcs == InitProcs /\ [][NextProcs]_vars

(* -------- ensure_folder while the store is changed from outside ------- *)

\* where a folder deleted in the Drive goes: no query with trashed=false sees it
TrashId == -1

\* somebody renames or deletes a folder in the Drive
OutOfBand(i) ==
  /\ i \in 1..Len(folders)
  /\ folders[i].parent = mainParent
  /\ folders[i].name \in DateNames
  /\ \/ folders' = [folders EXCEPT ![i].name = "renamed"]
     \/ folders' = [folders EXCEPT ![i].parent = TrashId]
  /\ UNCHANGED rq
  /\ ProcUnchanged

NextStale == NextProcs \/ \E i \in 1..(Len(folders)) : OutOfBand(i)

SpecStale == InitProcs /\ [][NextStale]_vars

(* --------------- the client's lastModified values ---------------------- *)

\* files of a batch, and lastModified values sent with it
MaxBatch == 3

\* float(val) / 1000.0: the seconds and the milliseconds that remain
Seconds(val) == [kind |-> "num", v |-> val \div 1000, ms |-> val % 1000]

\* the Form field: absent, or the list of ints sent
LastModified(given, vals) == [given |-> given, vals |-> vals]

\* a choice that always takes the first value
lm_ts_first(lastModified, i) ==
  IF lastModified.given /\ lastModified.vals # <<>>
    THEN Seconds(lastModified.vals[1])
    ELSE [kind |-> "none", v |-> 0, ms |-> 0]

\* lm_ts of the file at index i, counted from 0
lm_ts(lastModified, i) ==
  IF lastModified.given /\ lastModified.vals # <<>>
    THEN Seconds(IF i < Len(lastModified.vals) THEN lastModified.vals[i + 1]
                 ELSE lastModified.vals[1])
    ELSE [kind |-> "none", v |-> 0, ms |-> 0]

\* the loop reaches the next file and determines its lm_ts
NextFile ==
  /\ qpc = "stamp"
  /\ Len(qout) < qin.n
  /\ qout' = Append(qout, lm_ts(qin.lastModified, Len(qout)))
  /\ UNCHANGED <<qin, qpc, storeVars, threadVars, batchVars, eventVars, mergeVars, rq>>

\* File.lastModified values, in milliseconds
Stamps == {0, 1500, -1, 1700000123}

InitStamps ==
  /\ qin \in [n : 1..MaxBatch,
              lastModified : {LastModified(FALSE, <<>>)}
                               \cup {LastModified(TRUE, v) : v \in SeqsUpTo(Stamps, MaxBatch)}]
  /\ qout = <<>>
  /\ qpc = "stamp"
  /\ InitNoStore /\ InitThreads /\ InitNoBatch /\ InitNoEvents /\ InitNoMerge
  /\ InitNoRace

NextStamps == NextFile

SpecStamps == InitStamps /\ [][NextStamps]_vars

(* ------------- ensure_folder with the registry guard explicit ---------- *)

\* rq holds the thread inside `with _FOLDER_LOCKS_GUARD:`, NoId when the guard
\* is free; a thread at pc "guard" is inside _get_folder_lock

\* _get_folder_lock reaches `with _FOLDER_LOCKS_GUARD:` and takes the guard
EnterGuard(t) ==
  /\ th[t].pc = "ensure"
  /\ rq = NoId
  /\ rq' = t
  /\ th' = [th EXCEPT ![t].pc = "guard"]
  /\ UNCHANGED <<batchVars, eventVars, mergeVars, queryVars, storeVars,
                 createCalls, createFails, returned, log>>

\* the body of the with block that returns the mutex and keeps the guard
LeaveGuardHolding(t) ==
  /\ th[t].pc = "guard"
  /\ rq = t
  /\ locks' = locks \cup {KeyOf(t)}
  /\ th' = [th EXCEPT ![t].pc = "acquire"]
  /\ UNCHANGED <<batchVars, restVars, mainParent, folders, files, cache, held,
                 createCalls, createFails, returned, log>>

\* the body of the with block: get or create the key's mutex, return it; leaving
\* the block releases the guard
LeaveGuard(t) ==
  /\ th[t].pc = "guard"
  /\ rq = t
  /\ locks' = locks \cup {KeyOf(t)}
  /\ rq' = NoId
  /\ th' = [th EXCEPT ![t].pc = "acquire"]
  /\ UNCHANGED <<batchVars, eventVars, mergeVars, queryVars, mainParent, folders,
                 files, cache, held, createCalls, createFails, returned, log>>

\* a thread calls ensure_folder(date, main parent)
EnsureCall(t) ==
  /\ \E date \in DateNames : ProcessSyncBegin(t, date, <<"photo", ".", "jpg">>)
  /\ UNCHANGED <<batchVars, restVars, storeVars, createCalls, createFails, returned, log>>

\* one step of thread t inside ensure_folder; the call is over at pc "probe"
\* (returned) or "done" (raised)
EnsureStep(t) ==
  \/ EnterGuard(t)
  \/ LeaveGuard(t)
  \/ AcquireLock(t)
  \/ CacheCheck(t)
  \/ FindFolder(t)
  \/ FindFolderFails(t)
  \/ CreateFolder(t)
  \/ CreateFolderFails(t)

InitLive ==
  /\ InitStore /\ InitThreads /\ InitNoBatch /\ InitNoEvents /\ InitNoMerge
  /\ InitNoQuery
  /\ rq = NoId

NextLive == \E t \in Threads : EnsureCall(t) \/ EnsureStep(t)

\* every thread that can take a step is eventually scheduled, and every remote
\* call returns or fails; calls themselves need not arrive
SpecLive == InitLive /\ [][NextLive]_vars /\ \A t \in Threads : WF_vars(EnsureStep(t))

(* ============================== claims ================================ *)

ReturnedIds(key) == {r[2] : r \in {q \in returned : q[1] = key}}

HasReturned(t) == th[t].pc \in {"probe", "upload", "done"} /\ th[t].fid # NoId

\* C1: ensure_folder calls of one process with the same (parent, name) perform
\* at most one folder-create call (one more only after a create call that
\* raised) and all of them return the same folder id.
C1_OneCreateSameId ==
  \A d \in DateNames :
    /\ createCalls[d] <= 1 + createFails[d]
    /\ Cardinality(ReturnedIds(Key(mainParent, d))) <= 1

\* every thread has returned from ensure_folder for one key that had no folder
\* beforehand, after exactly one create call
C1_Witness ==
  \E d \in DateNames :
    /\ createCalls[d] = 1
    /\ createFails[d] = 0
    /\ \A t \in Threads : HasReturned(t) /\ th[t].name = d
    /\ Cardinality(ReturnedIds(Key(mainParent, d))) = 1

DateFoldersUnderRoot(d) ==
  {i \in 1..Len(folders) : folders[i].name = d /\ folders[i].parent = mainParent}

\* C2: in every reachable state the store holds at most one folder with a given
\* date name under the root.
C2_OneDateFolder ==
  \A d \in DateNames : Cardinality(DateFoldersUnderRoot(d)) <= 1

\* two uploads into one date folder that this process created have finished
C2_Witness ==
  \E d \in DateNames :
    /\ createCalls[d] >= 1
    /\ Cardinality(DateFoldersUnderRoot(d)) = 1
    /\ \A t \in Threads : th[t].pc = "done" /\ th[t].out = "ok" /\ th[t].name = d

\* C3, as claimed: once the handler has ended, the result list has one entry
\* per input file, in input order, whichever step failed for a file.
C3_EveryFileHasAnEntry ==
  /\ hpc \in {"returned", "aborted"} => Len(results) = Len(batch)
  /\ \A i \in 1..Len(results) : results[i].originalName = batch[i]

FilesIn(parent) == {j \in 1..Len(files) : files[j].parent = parent}

DistinctNames ==
  \A i, j \in 1..Len(files) :
    i # j /\ files[i].parent = files[j].parent => files[i].name # files[j].name

\* C4: with no concurrent uploader, upload_file stores the file under the
\* requested name when that name is free in the folder, and otherwise under
\* base-N+ext for the smallest N >= 1 whose name is free; the names of a folder
\* stay pairwise distinct.
C4_SmallestFreeSuffix ==
  /\ \A u \in log :
       LET base == stem(u.requested)
           ext == suffix(u.requested)
       IN IF u.requested \notin u.before
            THEN u.final = u.requested
            ELSE \E n \in 1..Cardinality(u.before) :
                   /\ u.final = Dedup(base, n, ext)
                   /\ u.final \notin u.before
                   /\ \A m \in 1..(n - 1) : Dedup(base, m, ext) \in u.before
  /\ \A u \in log :
       /\ u.requested = <<"2025-03-01", "_", "12-00-00", ".", "jpg">>
       /\ u.before = {u.requested}
       => u.final = <<"2025-03-01", "_", "12-00-00", "-", "1", ".", "jpg">>
  /\ DistinctNames

\* a folder the run created holds 2025-03-01_12-00-00.jpg and
\* 2025-03-01_12-00-00-1.jpg, stored in that order
C4_Witness ==
  /\ Len(files) = 2
  /\ files[1].parent = files[2].parent
  /\ files[1].name = <<"2025-03-01", "_", "12-00-00", ".", "jpg">>
  /\ files[2].name = <<"2025-03-01", "_", "12-00-00", "-", "1", ".", "jpg">>
  /\ hpc = "returned"

\* C5, as claimed: the stored name is <date>_<time> followed by all the
\* original dot-suffixes, with -N, on a collision, before the whole chain.
C5_SuffixBeforeWholeChain ==
  \A i \in 1..Len(results) :
    results[i].status = "ok" =>
      LET pre == <<results[i].dateFolder, "_", TimePart>>
          chain == suffixes(batch[i])
      IN \/ results[i].newName = pre \o chain
         \/ \E n \in 1..(Len(files) + 1) :
              results[i].newName = pre \o <<"-", ToString(n)>> \o chain

EventsFiles == {f \in 1..Len(files) : files[f].name = EVENTS_FILENAME}

\* the stored collection
Doc == IF EventsFiles = {} THEN <<>> ELSE Decode(files[Min(EventsFiles)].content)

\* C6, as claimed: an upsert whose id is the id of a stored event keeps the
\* length of the stored collection and the content and position of every
\* other event, and puts the new event at the position of the one it replaces.
C6_ReplacesInPlace ==
  [][(/\ resp'.op = "upsert"
      /\ resp'.status = 200
      /\ resp'.id \in Ids(Doc))
     => /\ Len(Doc') = Len(Doc)
        /\ \A j \in 1..Len(Doc) :
             IF Doc[j].id = resp'.id
               THEN Doc'[j].id = resp'.id
               ELSE Doc'[j] = Doc[j]]_vars

\* C7, as claimed: an upsert with no id gets an id no stored event has, the
\* stored collection grows by exactly one event and every stored event stays.
C7_GrowsByOne ==
  [][(/\ resp'.op = "upsert"
      /\ resp'.status = 200
      /\ resp'.generated)
     => /\ resp'.id \notin Ids(Doc)
        /\ Len(Doc') = Len(Doc) + 1
        /\ \A j \in 1..Len(Doc) : Doc'[j] = Doc[j]
        /\ Doc'[Len(Doc')].id = resp'.id]_vars

\* C8: a list() that follows a successful replaceAll(events), with no mutation
\* in between, returns exactly the submitted events in the submitted order.
C8_ListAfterReplace ==
  resp.op = "get" /\ lastMut.op = "replace" => resp.events = lastMut.events

\* list() has answered after a replaceAll of two events with the same id
C8_Witness ==
  /\ resp.op = "get"
  /\ lastMut.op = "replace"
  /\ Len(resp.events) = 2
  /\ resp.events[1].id = resp.events[2].id
  /\ resp.events[1] # resp.events[2]

AllStoredValid ==
  \A f \in EventsFiles :
    \A i \in 1..Len(files[f].content) :
      LET ev == Decode(files[f].content)[i]
      IN /\ fromisoformat(ev.start) # -1
         /\ fromisoformat(ev.end) # -1
         /\ fromisoformat(ev.end) >= fromisoformat(ev.start)

\* C9: a rejected upsert or replaceAll leaves the stored files as they were, and
\* every stored event has a start and an end that parse, with end >= start.
C9_RejectedLeavesDoc ==
  /\ []AllStoredValid
  /\ [][resp'.status = 400 => files' = files]_vars

\* a replaceAll was rejected while the document held an event
C9_Witness ==
  /\ resp.op = "replace"
  /\ resp.status = 400
  /\ Len(Doc) >= 1

\* the instant x / 2 lies in one of the intervals
Covers(ranges, x) ==
  \E i \in 1..Len(ranges) : 2 * ranges[i][1] <= x /\ x <= 2 * ranges[i][2]

\* C10: _merge_intervals returns intervals sorted by start, each starting
\* strictly after the previous one ends, that cover exactly the instants the
\* input covers; [10:00-11:00, 10:30-12:00, 14:00-15:00] gives
\* [10:00-12:00, 14:00-15:00] (in half hours after 10:00).
C10_MergedDisjointSameCover ==
  /\ mpc = "done" =>
       /\ \A i \in 1..Len(mOut) : mOut[i][1] <= mOut[i][2]
       /\ \A i \in 1..(Len(mOut) - 1) : mOut[i][2] < mOut[i + 1][1]
       /\ \A x \in 0..(2 * MaxT) : Covers(mIn, x) <=> Covers(mOut, x)
  /\ _merge_intervals(<<<<0, 2>>, <<1, 4>>, <<8, 10>>>>) = <<<<0, 4>>, <<8, 10>>>>

\* two touching intervals, given out of order, were merged into one
C10_Witness ==
  /\ mpc = "done"
  /\ Len(mIn) = 2
  /\ mIn[1][1] = mIn[2][2]
  /\ mIn[2][1] < mIn[2][2]
  /\ mIn[1][1] < mIn[1][2]
  /\ Len(mOut) = 1

\* the sample day whose folder name is name
DayNamed(name) == CHOOSE d \in SampleDays : Str(format_date_folder(d)) = name

\* the sample days of the closed range the last find_photos request names
RequestedDays ==
  LET lo == strptime_date(qin.start)
      hi == IF qin.end = <<>> THEN lo ELSE strptime_date(qin.end)
  IN {d \in SampleDays : ~Before(d, lo) /\ ~Before(hi, d)}

\* the position in the answer of the folder with this id
FolderPos(fid) == CHOOSE i \in 1..Len(qout.folders) : qout.folders[i].id = fid

\* C11: for start <= end, find_photos answers with exactly the days of
\* [start, end] that have a date folder under the root, in ascending order, and
\* with exactly the media of those folders, each once and tagged with its
\* folder's date, ordered by folder date and then by listing order.
C11_FoldersAndItemsOfRange ==
  (qpc = "done" /\ qout.op = "find_photos" /\ qout.status = 200) =>
    /\ {qout.folders[i].name : i \in 1..Len(qout.folders)}
         = {Str(format_date_folder(d)) :
              d \in {x \in RequestedDays :
                       FolderMatches(Str(format_date_folder(x)), mainParent) # {}}}
    /\ \A i \in 1..Len(qout.folders) :
         qout.folders[i].id \in FolderMatches(qout.folders[i].name, mainParent)
    /\ \A i, j \in 1..Len(qout.folders) :
         i < j => Before(DayNamed(qout.folders[i].name), DayNamed(qout.folders[j].name))
    /\ {qout.items[k].id : k \in 1..Len(qout.items)}
         = {f \in 1..Len(files) :
              /\ \E i \in 1..Len(qout.folders) : qout.folders[i].id = files[f].parent
              /\ files[f].content = "media"}
    /\ \A k \in 1..Len(qout.items) :
         /\ qout.items[k].name = files[qout.items[k].id].name
         /\ qout.items[k].folder = folders[files[qout.items[k].id].parent].name
    /\ \A k, l \in 1..Len(qout.items) :
         k < l =>
           LET pk == FolderPos(files[qout.items[k].id].parent)
               pl == FolderPos(files[qout.items[l].id].parent)
           IN pk < pl \/ (pk = pl /\ qout.items[k].id < qout.items[l].id)

\* a range of three days across the year's end of which only the middle day has
\* a folder: one folder and its two media are returned
C11_Witness ==
  /\ qpc = "done"
  /\ qout.op = "find_photos"
  /\ qout.status = 200
  /\ qin.start = format_date_folder(datetime(2024, 12, 31, 0, 0, 0, 0))
  /\ qin.end = format_date_folder(datetime(2025, 1, 2, 0, 0, 0, 0))
  /\ Len(qout.folders) = 1
  /\ qout.folders[1].name = "2025-01-01"
  /\ Len(qout.items) = 2

\* the reader got at the file's tags
TagsRead(q) ==
  /\ q.open = "ok"
  /\ q.process = "ok"
  /\ suffix(lower(q.name)) \in HEIC_EXTS => q.heif \in {"info", "metadata"}

\* the priorities of the tags the file carries with a value in a supported format
WellFormed(q) ==
  {i \in 1..3 :
     /\ EXIF_DATE_TAGS[i] \in DOMAIN q.tags
     /\ q.tags[EXIF_DATE_TAGS[i]] \in {ExifText(TagDt(i), ":"), ExifText(TagDt(i), "-")}}

NoTagFound(q) == ~(TagsRead(q) /\ WellFormed(q) # {})

\* C13, as claimed: with no tag found and a positive fallback timestamp, the
\* result is that timestamp converted to local time.
C13_PositiveFallbackReturned ==
  (qpc = "done" /\ NoTagFound(qin) /\ IsPositive(qin.fallback)) =>
    /\ ~fromtimestamp(qin.fallback).exc
    /\ qout = fromtimestamp(qin.fallback)

\* C13, amended: with no tag found and a positive fallback timestamp that
\* datetime.fromtimestamp can convert, the result is that timestamp in local
\* time whatever the filesystem times are (100 s after the epoch is 05:31:40 at
\* UTC+05:30); a positive timestamp it cannot convert is passed over for the
\* filesystem times.
C13_ConvertibleFallbackReturned ==
  (qpc = "done" /\ NoTagFound(qin) /\ IsPositive(qin.fallback)) =>
    /\ qin.fallback.kind = "num" => qout = Ok(Local(qin.fallback.v))
    /\ qin.fallback = TS("num", 100) => qout = Ok(datetime(1970, 1, 1, 5, 31, 40, 0))
    /\ qin.fallback.kind = "huge" => qout = _fs_timestamp_datetime(qin)

\* no tag was found, the fallback is 100 and the filesystem has a birth time
C13_Witness ==
  /\ qpc = "done"
  /\ NoTagFound(qin)
  /\ qin.fallback = TS("num", 100)
  /\ ~qin.stat.fails
  /\ qin.stat.birth = TS("num", 400000)
  /\ qout.val = datetime(1970, 1, 1, 5, 31, 40, 0)

\* C14: get_capture_datetime raises nothing and returns a datetime, whatever
\* fails; when reading, the fallback and the filesystem all fail, it returns the
\* current clock reading.
C14_Total ==
  qpc = "done" =>
    /\ ~qout.exc
    /\ qout.val # NoDt
    /\ (NoTagFound(qin) /\ ~IsPositive(qin.fallback) /\ qin.stat.fails) =>
         qout.val = qin.now

\* the unwrap raised, the fallback was beyond the range, stat failed: now
C14_Witness ==
  /\ qpc = "done"
  /\ suffix(lower(qin.name)) \in HEIC_EXTS
  /\ qin.heif = "info"
  /\ qin.open = "raises"
  /\ qin.fallback.kind = "huge"
  /\ qin.stat.fails
  /\ qout = Ok(qin.now)

\* C15, as claimed: for every datetime dt, the name format_date_folder(dt) "_"
\* format_time_for_name(dt), with or without an extension, is parsed back by
\* _parse_dt_from_name to dt truncated to whole seconds.
C15_RoundTrip ==
  qpc = "done" => qout = [qin.dt EXCEPT !.us = 0]

\* the date folders under the root
DateFolderIds ==
  {i \in 1..Len(folders) :
     /\ folders[i].parent = mainParent
     /\ folders[i].name \in {Str(format_date_folder(d)) : d \in EventDays}}

\* the stored events the last find_by_events request selects
SelectedEvents ==
  {ev \in UNION {Lookup(Doc, qin.eventIds[i]) : i \in 1..Len(qin.eventIds)} :
     fromisoformat(ev.start) # -1 /\ fromisoformat(ev.end) # -1}

\* the two ends of an event, the earlier one first
Lo(ev) == At(Min({fromisoformat(ev.start), fromisoformat(ev.end)}))
Hi(ev) == At(Max({fromisoformat(ev.start), fromisoformat(ev.end)}))

\* the media of the date folders whose name gives a time inside the closed
\* interval of a selected event
MediaOfEvents ==
  {f \in 1..Len(files) :
     /\ files[f].parent \in DateFolderIds
     /\ files[f].content = "media"
     /\ _parse_dt_from_name(files[f].name) # NoDt
     /\ \E ev \in SelectedEvents :
          /\ ~Before(_parse_dt_from_name(files[f].name), Lo(ev))
          /\ ~Before(Hi(ev), _parse_dt_from_name(files[f].name))}

\* C16: find_by_events returns a media item exactly when it lies in an existing
\* date folder, its name starts with a parseable YYYY-MM-DD_HH-MM-SS and that
\* time lies in the closed interval of at least one selected event; an item
\* whose name does not parse is dropped, and no item is returned twice.
C16_ItemsOfSelectedEvents ==
  (qpc = "done" /\ qout.op = "find_by_events") =>
    /\ {qout.items[i].id : i \in 1..Len(qout.items)} = MediaOfEvents
    /\ Len(qout.items) = Cardinality(MediaOfEvents)

\* both events of the request contain 10:00:00 of the first day; its file is
\* returned with six more of the two days, and IMG.jpg is not
C16_Witness ==
  /\ qpc = "done"
  /\ qout.op = "find_by_events"
  /\ qin.eventIds = <<"a", "b">>
  /\ Cardinality(SelectedEvents) = 2
  /\ \A ev \in SelectedEvents :
       /\ ~Before(datetime(2025, 2, 1, 10, 0, 0, 0), Lo(ev))
       /\ ~Before(Hi(ev), datetime(2025, 2, 1, 10, 0, 0, 0))
  /\ Len(qout.items) = 7
  /\ \E i \in 1..Len(qout.items) :
       qout.items[i].name = Upload(datetime(2025, 2, 1, 10, 0, 0, 0), <<"-", "1">> \o JpgExt)
  /\ \E f \in 1..Len(files) :
       /\ files[f].parent \in DateFolderIds
       /\ files[f].name = <<"I", "M", "G">> \o JpgExt
       /\ \A i \in 1..Len(qout.items) : qout.items[i].id # f

\* the days the closed intervals of the selected events touch
SelectedDays ==
  {d \in EventDays :
     \E ev \in SelectedEvents :
       ~Before(d, DateOf(Lo(ev))) /\ ~Before(DateOf(Hi(ev)), d)}

\* C17: find_by_events ignores a requested id that no stored event has, uses a
\* stored event whose end precedes its start as the interval [end, start], and
\* answers with no folders and no items when no requested id resolves to an
\* event: the folders are those of the days between the two ends of the
\* resolved events, whichever end is stored first.
C17_UnknownIgnoredInvertedSwapped ==
  (qpc = "done" /\ qout.op = "find_by_events") =>
    /\ qout.status = 200
    /\ SelectedEvents = {} => qout.folders = <<>> /\ qout.items = <<>>
    /\ {qout.folders[i].name : i \in 1..Len(qout.folders)}
         = {Str(format_date_folder(d)) :
              d \in {x \in SelectedDays :
                       FolderMatches(Str(format_date_folder(x)), mainParent) # {}}}
    /\ Len(qout.folders) = Cardinality({qout.folders[i].name : i \in 1..Len(qout.folders)})

\* a request for an unknown id and for an event stored with its end first: the
\* folders of both days of the event are returned, with items
C17_Witness ==
  /\ qpc = "done"
  /\ qout.op = "find_by_events"
  /\ qin.eventIds = <<"zz", "b">>
  /\ Lookup(Doc, "zz") = {}
  /\ \E ev \in Lookup(Doc, "b") :
       /\ fromisoformat(ev.end) # -1
       /\ fromisoformat(ev.end) < fromisoformat(ev.start)
  /\ Len(qout.folders) = 2
  /\ qout.items # <<>>

\* a request none of whose ids resolves, answered with nothing
C17_WitnessEmpty ==
  /\ qpc = "done"
  /\ qout.op = "find_by_events"
  /\ qin.eventIds = <<"zz", "b">>
  /\ Doc # <<>>
  /\ DateFolderIds # {}
  /\ SelectedEvents = {}
  /\ qout.folders = <<>>

\* the threads inside the locked body of ensure_folder
InEnsure(t) == th[t].pc \in {"cache", "find", "create"}

\* C18: ensure_folder calls with different keys never wait on each other's
\* remote work: getting the key's mutex from the registry never waits, and a
\* thread that has to wait at `with lock:` waits for a thread that is inside
\* ensure_folder with the same key.
C18_OnlySameKeyWaits ==
  \A t \in Threads :
    /\ th[t].pc = "ensure" => ENABLED GetFolderLock(t)
    /\ (th[t].pc = "acquire" /\ ~ENABLED AcquireLock(t)) =>
         \E u \in Threads \ {t} : KeyOf(u) = KeyOf(t) /\ InEnsure(u)

\* a thread is about to enter `with lock:` while a thread with another key is
\* between the lookup and the creation of its folder, and it can enter
C18_Witness ==
  \E t, u \in Threads :
    /\ KeyOf(t) # KeyOf(u)
    /\ th[u].pc = "create"
    /\ KeyOf(u) \in held
    /\ th[t].pc = "acquire"
    /\ ENABLED AcquireLock(t)

\* C20: the folder mutex does not cover the file upload: a mutex is held only
\* by a thread inside ensure_folder, and a thread in upload_file is never made
\* to wait, neither at the existence check nor at the create; two requests
\* with the same target name and folder can so both see the name free and
\* both create it.
C20_UploadOutsideMutex ==
  /\ \A k \in held : \E t \in Threads : KeyOf(t) = k /\ InEnsure(t)
  /\ \A t \in Threads :
       /\ th[t].pc = "probe" => ENABLED Probe(t)
       /\ th[t].pc = "upload" => ENABLED CreateFile(t)

\* two uploads have succeeded and left two files of one name in one folder,
\* each created after a check that found the name free
C20_Witness ==
  /\ \A t \in Threads : th[t].pc = "done" /\ th[t].out = "ok"
  /\ \E i, j \in 1..Len(files) :
       /\ i # j
       /\ files[i].parent = files[j].parent
       /\ files[i].name = files[j].name
       /\ \E a, b \in log :
            /\ a # b
            /\ a.final = files[i].name /\ a.parent = files[i].parent
            /\ b.final = files[j].name /\ b.parent = files[j].parent
            /\ a.final = a.requested
            /\ b.final = b.requested

\* the process that wrote the events file f last
LastWriter(f) ==
  CHOOSE p \in Procs :
    /\ rq[p].wrote = f
    /\ \A q \in Procs : rq[q].wrote = f => rq[q].at <= rq[p].at

\* C19: an EventStore mutation is an unguarded read-modify-write and the last
\* writer wins: a valid upsert always reports success, and an events file holds
\* what its last writer made of the list it had read itself, whatever was
\* written in between; two concurrent upserts of different ids can so both
\* succeed and leave only one of the two events.
C19_LastWriterWins ==
  /\ \A p \in Procs : rq[p].pc = "done" => rq[p].status = (IF Invalid(rq[p].ev) THEN 400 ELSE 200)
  /\ \A f \in 1..Len(files) :
       (\E p \in Procs : rq[p].wrote = f) =>
          files[f].content = Encode(Put(ById(rq[LastWriter(f)].events), rq[LastWriter(f)].ev))

\* both upserts, of different ids, took the update path and reported success,
\* and the one stored document holds the event of one of them only
C19_Witness ==
  /\ \A p \in Procs : rq[p].pc = "done" /\ rq[p].status = 200
  /\ rq[1].ev.id # rq[2].ev.id
  /\ Cardinality(EventsFiles) = 1
  /\ rq[1].wrote = rq[2].wrote
  /\ Cardinality(Ids(Doc) \cap {rq[1].ev.id, rq[2].ev.id}) = 1

\* C23, as claimed: for a file of the HEIC family whose container unwrap gives
\* no capture time (here: pillow_heif cannot be imported), the tags are parsed
\* directly from the file, and the fallback or the filesystem time is used
\* only when that gives nothing either.
C23_DirectParseAfterUnwrap ==
  (/\ qpc = "done"
   /\ suffix(lower(qin.name)) \in HEIC_EXTS
   /\ qin.heif = "missing"
   /\ qin.open = "ok"
   /\ qin.process = "ok") =>
    qout = (IF Guard(DirectRead(qin)).val # NoDt THEN Guard(DirectRead(qin))
            ELSE Fallback(qin))

\* C22, as claimed: the id ensure_folder returns, and the id it caches,
\* designates a folder with the requested name directly under the requested
\* parent, or directly under the store root when no parent is given.
C22_ReturnedUnderRequestedParent ==
  /\ \A r \in returned :
       folders[r[2]].name = r[1][2] /\ folders[r[2]].parent = r[1][1]
  /\ \A key \in DOMAIN cache :
       folders[cache[key]].name = key[2] /\ folders[cache[key]].parent = key[1]

\* the folders named name directly under the main parent
Named(name) == {i \in 1..Len(folders) : folders[i] = Folder(name, mainParent)}

\* C21: the at-most-one-folder guarantee is per process: a process creates a
\* folder only after its own lookup found none, and at most one for a name, so
\* there are never more folders of one name than processes; two processes can
\* both find none and both create, leaving two same-named folders.
C21_AtMostOnePerProcess ==
  /\ \A p \in Procs :
       /\ rq[p].pc = "create" => rq[p].seen = {}
       /\ \A name \in DateNames : Cardinality(rq[p].made \cap Named(name)) <= 1
  /\ \A name \in DateNames : Cardinality(Named(name)) <= Cardinality(Procs)

\* both processes have created a folder 2025-03-01 under the same parent, and
\* each got the id of its own
C21_Witness ==
  /\ Cardinality(Named("2025-03-01")) = 2
  /\ \A p \in Procs :
       /\ rq[p].pc = "idle"
       /\ Cardinality(rq[p].made \cap Named("2025-03-01")) = 1
  /\ rq[1].cache[Key(mainParent, "2025-03-01")] # rq[2].cache[Key(mainParent, "2025-03-01")]

\* C24: once ensure_folder has returned an id for a key, the process's cache
\* keeps that id under that key, and every later call of the process for the
\* key returns the same id without a remote call, even when the folder has
\* been renamed or deleted in the store meanwhile.
C24_CacheNeverInvalidated ==
  \A p \in Procs :
    \A j \in 1..Len(rq[p].got) :
      /\ rq[p].got[j].key \in DOMAIN rq[p].cache
      /\ rq[p].cache[rq[p].got[j].key] = rq[p].got[j].id
      /\ \A i \in 1..(j - 1) :
           rq[p].got[i].key = rq[p].got[j].key =>
             rq[p].got[j].id = rq[p].got[i].id /\ rq[p].got[j].remote = 0

\* the second call of a process for a key returned the id of the first, with
\* no remote call, after the folder had gone from the store
C24_Witness ==
  \E p \in Procs :
    /\ Len(rq[p].got) = 2
    /\ rq[p].got[1].key = rq[p].got[2].key
    /\ rq[p].got[1].remote > 0
    /\ rq[p].got[2].stale
    /\ rq[p].got[2].id = rq[p].got[1].id
    /\ rq[p].got[2].remote = 0

\* the scratch directories no rmtree was tried on
Live == {i \in temps : i > 0}

\* C25, as claimed: whatever the outcome of a file, its scratch directory is
\* gone before the next file is started and before the response is returned.
C25_ScratchRemoved ==
  hpc \in {"loop", "returned"} => temps = {}

\* C25, amended: before the next file is started and before the response is
\* returned, shutil.rmtree has been run on the scratch directory of every file
\* handled, whatever its outcome; a directory that remains is one of an earlier
\* file whose removal failed, which the handler ignores.
C25_ScratchRemovalTried ==
  /\ hpc \in {"loop", "returned"} => Live = {}
  /\ hpc \in {"write", "dispatch", "await", "finally"} => Live = {idx}
  /\ \A i \in temps : i < 0 => -i < idx /\ -i <= Len(results)

\* a batch of two files, one stored and one failed, has been answered and no
\* scratch directory is left
C25_Witness ==
  /\ hpc = "returned"
  /\ Len(results) = 2
  /\ \E i, j \in 1..2 : results[i].status = "ok" /\ results[j].status = "error"
  /\ temps = {}

\* C26: the file at index i of a batch is resolved with the i-th lastModified
\* value, in seconds, when the list has one; with the first value when the
\* list is not empty but ends before i; and with no fallback when the list is
\* absent or empty.
C26_FallbackByIndex ==
  qpc = "stamp" =>
    \A k \in 1..Len(qout) :
      LET vals == qin.lastModified.vals
      IN /\ (qin.lastModified.given /\ k <= Len(vals)) =>
              /\ qout[k].kind = "num"
              /\ 1000 * qout[k].v + qout[k].ms = vals[k]
              /\ qout[k].ms \in 0..999
         /\ (qin.lastModified.given /\ vals # <<>> /\ k > Len(vals)) =>
              /\ qout[k].kind = "num"
              /\ 1000 * qout[k].v + qout[k].ms = vals[1]
         /\ (~qin.lastModified.given \/ vals = <<>>) => qout[k].kind = "none"

\* three files with the two values 1500 and 0: 1.5 s, 0 s, and 1.5 s again
C26_Witness ==
  /\ qpc = "stamp"
  /\ qin.n = 3
  /\ qin.lastModified = LastModified(TRUE, <<1500, 0>>)
  /\ Len(qout) = 3
  /\ qout[1] = [kind |-> "num", v |-> 1, ms |-> 500]
  /\ qout[2] = [kind |-> "num", v |-> 0, ms |-> 0]
  /\ qout[3] = qout[1]

\* C27: delete(id) rewrites the collection as the stored events whose id is
\* not id, in their stored order, and answers 200 with that list; when no
\* stored event has the id the content stays as it was, so a second delete of
\* the same id changes nothing.
C27_DeleteFilters ==
  [][resp'.op = "delete" =>
       LET Other(e) == e.id # resp'.id
       IN /\ resp'.status = 200
          /\ Doc' = SelectSeq(Doc, Other)
          /\ resp'.events = Doc'
          /\ resp'.id \notin Ids(Doc) => Doc' = Doc
          /\ SelectSeq(Doc', Other) = Doc']_vars

\* a was deleted from a collection of two: b is what remains
C27_Witness ==
  /\ resp.op = "delete"
  /\ resp.id = "a"
  /\ Len(Doc) = 1
  /\ Doc[1].id = "b"
  /\ resp.events = Doc

\* C28, as claimed: whatever requests have run, concurrent ones included, the
\* saved folder holds at most one file named events.json.
C28_OneEventsFile ==
  \A d \in 1..Len(folders) :
    folders[d].name = SAVED_FOLDER_NAME =>
      Cardinality({f \in EventsFiles : files[f].parent = d}) <= 1

\* a text of the form YYYY-MM-DD that names a sample day
IsDate(text) == \E d \in SampleDays : text = format_date_folder(d)

\* a text that names a sample day, with or without the padding zeros
NamesDay(text) == \E d \in SampleDays : text \in {format_date_folder(d), Unpadded(d)}

DayOf(text) == CHOOSE d \in SampleDays : text \in {format_date_folder(d), Unpadded(d)}

\* the last request named two days, or one, in order
InOrder ==
  /\ NamesDay(qin.start)
  /\ qin.end # <<>> => NamesDay(qin.end) /\ ~Before(DayOf(qin.end), DayOf(qin.start))

C30_FailureReleasesAndCachesNothing ==
  [][\A t \in Threads :
       (th[t].pc \in {"find", "create"} /\ th'[t].pc = "done") =>
         /\ th'[t].out = "error"
         /\ cache' = cache
         /\ KeyOf(t) \notin held'
         /\ returned' = returned]_vars

\* the create of one thread failed; the other thread, with the same key, went
\* in after it, found nothing cached, and is about to create the folder
C30_Witness ==
  \E t, u \in Threads :
    /\ t # u
    /\ th[t].pc = "done" /\ th[t].out = "error"
    /\ createFails[th[t].name] = 1
    /\ KeyOf(u) = KeyOf(t)
    /\ th[u].pc = "create"
    /\ KeyOf(u) \in held
    /\ KeyOf(u) \notin DOMAIN cache

\* the ensure_folder call of thread t is in progress
Calling(t) == th[t].pc \in {"ensure", "guard", "acquire", "cache", "find", "create"}

\* C31: ensure_folder is deadlock-free: the registry guard is held only inside
\* _get_folder_lock, never by a thread that waits for a per-key mutex or is in a
\* remote call; every held per-key mutex belongs to a distinct thread inside
\* its critical section, so no thread holds two; and every call in progress
\* eventually returns or raises.
C31_EnsureFolderReturns ==
  /\ [](/\ rq # NoId => th[rq].pc = "guard"
        /\ \A t \in Threads : th[t].pc = "guard" => rq = t
        /\ Cardinality(held) = Cardinality({t \in Threads : InEnsure(t)})
        /\ \A k \in held : \E t \in Threads : InEnsure(t) /\ KeyOf(t) = k)
  /\ \A t \in Threads : Calling(t) ~> ~Calling(t)

\* one thread is inside a remote call holding its key's mutex, a second one
\* waits for that mutex, and the registry guard is free
C31_Witness ==
  \E t, u \in Threads :
    /\ t # u
    /\ KeyOf(t) = KeyOf(u)
    /\ th[t].pc = "find"
    /\ th[u].pc = "acquire"
    /\ ~ENABLED AcquireLock(u)
    /\ rq = NoId

====
